---------------------------- MODULE Spec2Model ----------------------------
(***************************************************************************)
(* A model of three programs of the repository:                            *)
(*   scripts/claude-claim-validator.py  (ClaudeClaimValidator)   -> Spec    *)
(*   scripts/crod-unified-hook.py       (CRODHookSystem)         -> HookSpec*)
(*   scripts/crod-ultra-hooks.py        (CRODConsciousness)      -> UltraSpec*)
(* Python strings are TLA+ strings; TLC evaluates Len, \o, SubSeq, Head    *)
(* and Tail on them, so str.strip, str.lower, slicing and the `in`         *)
(* substring test are computed character by character.                     *)
(***************************************************************************)
EXTENDS Integers, Sequences, FiniteSets, TLC

(***************************************************************************)
(* Bounds of the model.                                                    *)
(***************************************************************************)
MaxClaims == 2      \* claims appended to the claim store in one behaviour
MaxCalls == 3       \* calls made on one ClaudeClaimValidator object
MaxCrodCalls == 2   \* calls made on CRODConsciousness objects in one behaviour
MaxObservations == 3 \* log_decision calls in one behaviour of the score model
MaxUlps == 6        \* initial scores 1 - j * 2^-53 and j * 2^-1074 for j in 1..MaxUlps

(***************************************************************************)
(* Python string helpers.                                                  *)
(***************************************************************************)
Min(a, b) == IF a < b THEN a ELSE b
Max(a, b) == IF a > b THEN a ELSE b

CharAt(s, i) == SubSeq(s, i, i)

IsSpace(c) == c \in {" ", "\n", "\t", "\r"}

RECURSIVE LStrip(_)
LStrip(s) == IF Len(s) > 0 /\ IsSpace(CharAt(s, 1)) THEN LStrip(Tail(s)) ELSE s

RECURSIVE RStrip(_)
RStrip(s) ==
    IF Len(s) > 0 /\ IsSpace(CharAt(s, Len(s)))
    THEN RStrip(SubSeq(s, 1, Len(s) - 1))
    ELSE s

\* str.strip()
Strip(s) == RStrip(LStrip(s))

UpperCase == "ABCDEFGHIJKLMNOPQRSTUVWXYZ"
LowerCase == "abcdefghijklmnopqrstuvwxyz"

UpperChars == {CharAt(UpperCase, i) : i \in 1 .. Len(UpperCase)}

ToLower ==
    [c \in UpperChars |->
        CharAt(LowerCase, CHOOSE i \in 1 .. Len(UpperCase) : CharAt(UpperCase, i) = c)]

LowerChar(c) == IF c \in UpperChars THEN ToLower[c] ELSE c

\* str.lower()
RECURSIVE Lower(_)
Lower(s) == IF Len(s) = 0 THEN "" ELSE LowerChar(CharAt(s, 1)) \o Lower(Tail(s))

\* `sub in s`
In(sub, s) ==
    \E i \in 1 .. (Len(s) - Len(sub) + 1) : SubSeq(s, i, i + Len(sub) - 1) = sub

\* s[:n]
Prefix(s, n) == SubSeq(s, 1, Min(n, Len(s)))

(***************************************************************************)
(* Python floats.  A float is an IEEE 754 binary64 number; the scores and  *)
(* confidences of crod-ultra-hooks.py are never negative, infinite or NaN. *)
(* A float is modelled exactly, as [m, e] standing for m * 2^e, with the   *)
(* significand m a natural number below 2^53 written in base 2^13 (least   *)
(* significant digit first, no leading zero digit) and e >= -1074; m is    *)
(* at least 2^52 unless e = -1074 (subnormal numbers and zero).  Every     *)
(* operation computes the exact result and rounds it to nearest, ties to   *)
(* even, as the hardware does.                                             *)
(***************************************************************************)
DigitBits == 13
Base == 2 ^ DigitBits
SigBits == 53          \* bits of a binary64 significand
EMin == 0 - 1074       \* exponent of the smallest positive binary64 number

RECURSIVE Trim(_)
Trim(p) == IF Len(p) > 0 /\ p[Len(p)] = 0 THEN Trim(SubSeq(p, 1, Len(p) - 1)) ELSE p

Digit(p, i) == IF i >= 1 /\ i <= Len(p) THEN p[i] ELSE 0

\* digits of sum(raw[i] * Base^(i-1)) + c
RECURSIVE Carry(_, _)
Carry(raw, c) ==
    IF Len(raw) = 0
    THEN (IF c = 0 THEN <<>> ELSE <<c % Base>> \o Carry(<<>>, c \div Base))
    ELSE LET t == Head(raw) + c IN <<t % Base>> \o Carry(Tail(raw), t \div Base)

BigAdd(a, b) ==
    Trim(Carry([i \in 1 .. Max(Len(a), Len(b)) |-> Digit(a, i) + Digit(b, i)], 0))

\* a - b for a >= b
RECURSIVE SubDigits(_, _, _, _)
SubDigits(a, b, i, borrow) ==
    IF i > Len(a) THEN <<>>
    ELSE LET t == a[i] - Digit(b, i) - borrow IN
         <<(t + Base) % Base>> \o SubDigits(a, b, i + 1, IF t < 0 THEN 1 ELSE 0)

BigSub(a, b) == Trim(SubDigits(a, b, 1, 0))

RECURSIVE ConvSum(_, _, _, _)
ConvSum(a, b, k, i) ==
    IF i > Len(a) THEN 0 ELSE a[i] * Digit(b, k + 1 - i) + ConvSum(a, b, k, i + 1)

BigMul(a, b) ==
    IF Len(a) = 0 \/ Len(b) = 0 THEN <<>>
    ELSE Trim(Carry([k \in 1 .. (Len(a) + Len(b) - 1) |-> ConvSum(a, b, k, 1)], 0))

\* a < b
RECURSIVE LessFrom(_, _, _)
LessFrom(a, b, i) ==
    IF i = 0 THEN FALSE
    ELSE IF a[i] # b[i] THEN a[i] < b[i] ELSE LessFrom(a, b, i - 1)

BigLess(a, b) ==
    IF Len(a) # Len(b) THEN Len(a) < Len(b) ELSE LessFrom(a, b, Len(a))

RECURSIVE SmallBitLen(_)
SmallBitLen(x) == IF x = 0 THEN 0 ELSE 1 + SmallBitLen(x \div 2)

BitLen(p) ==
    IF Len(p) = 0 THEN 0 ELSE DigitBits * (Len(p) - 1) + SmallBitLen(p[Len(p)])

\* p * 2^k
ShiftLeft(p, k) ==
    LET z == k \div DigitBits
        r == k % DigitBits
    IN  Trim(Carry([i \in 1 .. (z + Len(p)) |-> IF i <= z THEN 0 ELSE p[i - z] * (2 ^ r)], 0))

\* p \div 2^k
ShiftRight(p, k) ==
    LET z == k \div DigitBits
        r == k % DigitBits
        n == Max(Len(p) - z, 0)
    IN  Trim([i \in 1 .. n |->
                  (p[i + z] \div (2 ^ r)) + (Digit(p, i + z + 1) % (2 ^ r)) * (2 ^ (DigitBits - r))])

\* bit j of p (bit 0 is the least significant)
Bit(p, j) == (Digit(p, (j \div DigitBits) + 1) \div (2 ^ (j % DigitBits))) % 2

\* p % 2^k # 0
LowBitsSet(p, k) ==
    \/ \E i \in 1 .. Min(Len(p), k \div DigitBits) : p[i] # 0
    \/ Digit(p, (k \div DigitBits) + 1) % (2 ^ (k % DigitBits)) # 0

\* p / 2^k (k > 0) rounded to the nearest integer, ties to the even one
RoundShift(p, k) ==
    LET q == ShiftRight(p, k)
        up == Bit(p, k - 1) = 1 /\ (LowBitsSet(p, k - 1) \/ Bit(p, k) = 1)
    IN  IF up THEN BigAdd(q, <<1>>) ELSE q

FZero == [m |-> <<>>, e |-> EMin]

\* the float nearest to p * 2^e
FRound(p, e) ==
    IF Len(p) = 0 THEN FZero
    ELSE LET sh == Max(BitLen(p) - SigBits, EMin - e) IN
         IF sh <= 0 THEN [m |-> ShiftLeft(p, 0 - sh), e |-> e + sh]
         ELSE LET q == RoundShift(p, sh) IN
              IF Len(q) = 0 THEN FZero
              ELSE IF BitLen(q) > SigBits THEN [m |-> ShiftRight(q, 1), e |-> e + sh + 1]
              ELSE [m |-> q, e |-> e + sh]

\* x < y, x <= y
FLess(x, y) == x.e < y.e \/ (x.e = y.e /\ BigLess(x.m, y.m))
FLeq(x, y) == x = y \/ FLess(x, y)

\* x * y
FMul(x, y) == FRound(BigMul(x.m, y.m), x.e + y.e)

\* the larger exponent minus the smaller; beyond FarApart the smaller operand
\* only decides the rounding direction
FarApart == 60

\* x + y
FAdd(x, y) ==
    LET hi == IF x.e >= y.e THEN x ELSE y
        lo == IF x.e >= y.e THEN y ELSE x
    IN  IF Len(lo.m) = 0 THEN hi
        ELSE IF hi.e - lo.e > FarApart
             THEN FRound(BigAdd(ShiftLeft(hi.m, 3), <<1>>), hi.e - 3)
        ELSE FRound(BigAdd(ShiftLeft(hi.m, hi.e - lo.e), lo.m), lo.e)

\* x - y for x >= y
FSub(x, y) ==
    IF Len(y.m) = 0 THEN x
    ELSE IF x.e - y.e > FarApart
         THEN FRound(BigSub(ShiftLeft(x.m, 3), <<1>>), x.e - 3)
    ELSE FRound(BigSub(ShiftLeft(x.m, x.e - y.e), y.m), y.e)

\* min(x, y)
FMin(x, y) == IF FLess(y, x) THEN y ELSE x

(***************************************************************************)
(* ClaudeClaimValidator: the claim store and the two session lists.        *)
(***************************************************************************)
VARIABLES
    claims_file,      \* the JSON file self.claims_file: [exists, claims, mode]
    failed_claims,    \* self.failed_claims
    verified_claims,  \* self.verified_claims
    now,              \* what `date +%s` prints: each call is made one second
                      \* after the call before it
    ncalls,           \* calls made so far on the object
    last,             \* the call that has just returned (or raised)
    issued,           \* what log_claim has returned so far: [id, given]
    procs,            \* two validator processes working on the same file,
                      \* each between the read and the write of one call
    verdicts,         \* per store position, the claim the latest verify_claim
                      \* wrote there (NoClaim: none yet)
    overlapped        \* a call has started while another process was
                      \* between its read and its write

validatorVars ==
    <<claims_file, failed_claims, verified_claims, now, ncalls, last, issued,
      procs, verdicts, overlapped>>

\* CRODHookSystem (crod-unified-hook.py)
VARIABLES
    env,             \* files, programs and processes the checks look at
    hook_pc,         \* "start", "checks", "report", "summary", "exited"
    check_i,         \* checks evaluated so far by the loop of run_all_checks
    violations,      \* self.violations
    checks_passed,   \* self.checks_passed
    checks_failed,   \* self.checks_failed
    evaluated,       \* names of the checks called, in call order
    run_success,     \* what run_all_checks returned
    report_file,     \* ~/.claude/hook-execution-report.json: [writes, report]
    exit_code        \* exit status of the process (-1 while it runs)

hookVars ==
    <<env, hook_pc, check_i, violations, checks_passed, checks_failed,
      evaluated, run_success, report_file, exit_code>>

\* CRODConsciousness (crod-ultra-hooks.py)
VARIABLES
    consciousness_level,  \* self.consciousness_level
    trinity_active,       \* self.trinity_active
    decision_history,     \* self.decision_history
    pattern_memory,       \* self.pattern_memory: pattern key -> score
    patterns_file,        \* ~/.claude/crod-patterns.json: [exists, data]
    state_file,           \* ~/.claude/crod-consciousness-state.json
    crod_calls,           \* calls made so far in this behaviour
    crod_last             \* the call that has just returned

crodVars ==
    <<consciousness_level, trinity_active, decision_history, pattern_memory,
      patterns_file, state_file, crod_calls, crod_last>>

\* JSON null / a key that the JSON object does not have
None == "<None>"
Absent == -1

\* What running one proof command through subprocess.run can do.
Completed(rc, out, err) ==
    [kind |-> "completed", returncode |-> rc, stdout |-> out, stderr |-> err, message |-> ""]
TimeoutExpired ==
    [kind |-> "timeout", returncode |-> -1, stdout |-> "", stderr |-> "", message |-> ""]
Raised(m) ==
    [kind |-> "exception", returncode |-> -1, stdout |-> "", stderr |-> "", message |-> m]

Outcomes ==
    { Completed(0, "ok\n", ""),        \* e.g. `echo ok`
      Completed(0, "", ""),            \* e.g. `true`
      Completed(0, " \n", "warn\n"),   \* exit 0, stdout only whitespace
      Completed(1, "", "boom\n"),      \* e.g. `exit 1` after writing to stderr
      Completed(1, "partial\n", ""),   \* non-zero exit with some stdout
      TimeoutExpired,
      Raised("embedded null byte") }

\* The (claim, proof_command) pairs a caller logs.
LoggedClaims ==
    { <<"api responding", "curl -s http://localhost:8890/api/stats">>,
      <<"Pattern evolution is working", "echo ok">> }

\* Ids a caller may pass to verify_claim.
ClaimIds == (0 - 2) .. MaxClaims

NoClaim ==
    [timestamp |-> Absent, claim |-> "", proof_command |-> "", expected_result |-> "",
     verified |-> FALSE, actual_result |-> None, verification_timestamp |-> Absent]

NoCounts == [verified |-> 0, failed |-> 0, total |-> 0]

NoCall ==
    [op |-> "none", id |-> 0, ok |-> FALSE, result |-> "", raised |-> "",
     ran |-> 0, claim |-> NoClaim, outcome |-> Completed(0, "", ""),
     counts |-> NoCounts, repeat |-> FALSE, prev_counts |-> NoCounts,
     text |-> "", appended |-> 0]

\* What the process may do with the claims file: mode "rw" lets it read and
\* write, "r" only read (open(..., 'w') raises PermissionError), "none"
\* neither.
Readable(file) == file.mode \in {"rw", "r"}
Writable(file) == file.mode = "rw"

\* str(e) of the PermissionError open() raises
PermissionDenied == "[Errno 13] Permission denied: 'claude-claims.json'"

\* claim_data of log_claim
NewClaim(claim, proof_command, expected_result, ts) ==
    [timestamp |-> ts, claim |-> claim, proof_command |-> proof_command,
     expected_result |-> expected_result, verified |-> FALSE, actual_result |-> None,
     verification_timestamp |-> Absent]

\* (mutant of LogClaimId: the length of the list is returned)
LogClaimId_Length(file) == 1 + IF file.exists THEN Len(file.claims) ELSE 0

\* (mutant of LogClaimStore: the list loaded is not kept)
LogClaimStore_Fresh(file, claim_data) ==
    [file EXCEPT !.exists = TRUE, !.claims = <<claim_data>>]

\* log_claim: the list written back and the id returned
LogClaimStore(file, claim_data) ==
    LET claims == IF file.exists THEN file.claims ELSE <<>>
    IN  [file EXCEPT !.exists = TRUE, !.claims = Append(claims, claim_data)]

LogClaimId(file) == Len(LogClaimStore(file, NoClaim).claims) - 1

\* an id log_claim returned, with the fields of the claim it was given
Issued(id, claim_data) ==
    [id |-> id,
     given |-> <<claim_data.claim, claim_data.proof_command,
                 claim_data.expected_result, claim_data.timestamp>>]

log_claim(claim, proof_command, expected_result) ==
    /\ ncalls < MaxCalls
    /\ (IF claims_file.exists THEN Len(claims_file.claims) ELSE 0) < MaxClaims
    /\ claims_file' =
           LogClaimStore(claims_file, NewClaim(claim, proof_command, expected_result, now))
    /\ last' = [NoCall EXCEPT !.op = "log_claim", !.id = LogClaimId(claims_file),
                              !.ok = TRUE, !.text = claim, !.appended = 1]
    /\ issued' = Append(issued,
                        Issued(LogClaimId(claims_file),
                               NewClaim(claim, proof_command, expected_result, now)))
    /\ ncalls' = ncalls + 1
    /\ now' = now + 1
    /\ UNCHANGED <<failed_claims, verified_claims, procs, verdicts, overlapped>>
    /\ UNCHANGED <<hookVars, crodVars>>

\* claims[claim_id] of a Python list of n elements, as a 1-based position;
\* 0 when Python raises IndexError
PyIndex(n, i) ==
    IF i >= 0 THEN (IF i < n THEN i + 1 ELSE 0)
    ELSE (IF n + i >= 0 THEN n + i + 1 ELSE 0)

\* the bounds test of verify_claim
InvalidClaimId(claims, claim_id) == claim_id >= Len(claims)

\* (mutant of Success: the exit code alone decides)
Success_ExitCodeOnly(returncode, actual_result) == returncode = 0

\* success = result.returncode == 0 and len(actual_result) > 0
Success(returncode, actual_result) == returncode = 0 /\ Len(actual_result) > 0

\* (mutant of ClaimCompleted: a failing command's stderr is stored)
ClaimCompleted_StoresStderr(claim, out, ts) ==
    [claim EXCEPT !.verified = Success(out.returncode, Strip(out.stdout)),
                  !.actual_result = IF out.returncode = 0 THEN Strip(out.stdout)
                                    ELSE Strip(out.stderr),
                  !.verification_timestamp = ts]

\* the body of the try block when subprocess.run returned
ClaimCompleted(claim, out, ts) ==
    [claim EXCEPT !.verified = Success(out.returncode, Strip(out.stdout)),
                  !.actual_result = Strip(out.stdout),
                  !.verification_timestamp = ts]

\* (mutant of ClaimTimedOut: the verdict is not reset)
ClaimTimedOut_KeepsVerdict(claim) == [claim EXCEPT !.actual_result = "TIMEOUT"]

\* except subprocess.TimeoutExpired
ClaimTimedOut(claim) ==
    [claim EXCEPT !.verified = FALSE, !.actual_result = "TIMEOUT"]

\* (mutant of ClaimErrored: the verdict is not reset)
ClaimErrored_KeepsVerdict(claim, out) ==
    [claim EXCEPT !.actual_result = "ERROR: " \o out.message]

\* except Exception as e
ClaimErrored(claim, out) ==
    [claim EXCEPT !.verified = FALSE, !.actual_result = "ERROR: " \o out.message]

\* (mutant of SaveClaims: only the verified claim is written back)
SaveClaims_OnlyUpdated(file, pos, claim) == [file EXCEPT !.claims = <<claim>>]

\* (mutant of SaveClaims: the result is not written back)
SaveClaims_Skipped(file, pos, claim) == file

\* json.dump(claims, f) after the try block has updated claims[claim_id]
SaveClaims(file, pos, claim) ==
    [file EXCEPT !.claims = [file.claims EXCEPT ![pos] = claim]]

\* what claims_file holds when verify_claim returns
StoreAfterVerify(file, pos, claim, out) ==
    IF out.kind = "completed" THEN SaveClaims(file, pos, claim) ELSE file

\* One call verify_claim(claim_id) in the state st = [file, failed, verified],
\* the proof command ending as `out`, `date +%s` printing ts.
VerifyClaim(st, claim_id, out, ts) ==
    LET base == [file |-> st.file, failed |-> st.failed, verified |-> st.verified,
                 ok |-> FALSE, result |-> "", raised |-> "", ran |-> 0,
                 claim |-> NoClaim]
    IN
    IF ~st.file.exists THEN [base EXCEPT !.raised = "FileNotFoundError"]
    ELSE IF ~Readable(st.file) THEN [base EXCEPT !.raised = "PermissionError"]
    ELSE IF InvalidClaimId(st.file.claims, claim_id)
         THEN [base EXCEPT !.result = "Invalid claim ID"]
    ELSE LET pos == PyIndex(Len(st.file.claims), claim_id) IN
         IF pos = 0 THEN [base EXCEPT !.raised = "IndexError"]
    ELSE IF out.kind = "completed" /\ ~Writable(st.file)
         THEN \* open(self.claims_file, 'w') raises inside the try block
              LET claim == ClaimErrored(ClaimCompleted(st.file.claims[pos], out, ts),
                                        Raised(PermissionDenied))
              IN  [base EXCEPT !.failed = Append(st.failed, claim),
                               !.result = "Verification error: " \o PermissionDenied,
                               !.ran = 1, !.claim = claim]
    ELSE LET claim ==
                 CASE out.kind = "completed" -> ClaimCompleted(st.file.claims[pos], out, ts)
                   [] out.kind = "timeout" -> ClaimTimedOut(st.file.claims[pos])
                   [] OTHER -> ClaimErrored(st.file.claims[pos], out)
         IN
         IF out.kind = "completed" /\ claim.verified
         THEN [base EXCEPT !.file = StoreAfterVerify(st.file, pos, claim, out),
                           !.verified = Append(st.verified, claim),
                           !.ok = TRUE, !.result = claim.actual_result,
                           !.ran = 1, !.claim = claim]
         ELSE [base EXCEPT !.file = StoreAfterVerify(st.file, pos, claim, out),
                           !.failed = Append(st.failed, claim),
                           !.ok = FALSE,
                           !.result =
                               CASE out.kind = "completed" -> "Command failed: " \o out.stderr
                                 [] out.kind = "timeout" -> "Verification command timed out"
                                 [] OTHER -> "Verification error: " \o out.message,
                           !.ran = 1, !.claim = claim]

verify_claim(claim_id, out) ==
    /\ ncalls < MaxCalls
    /\ LET r == VerifyClaim([file |-> claims_file, failed |-> failed_claims,
                             verified |-> verified_claims], claim_id, out, now)
       IN  /\ claims_file' = r.file
           /\ failed_claims' = r.failed
           /\ verified_claims' = r.verified
           /\ last' = [NoCall EXCEPT !.op = "verify_claim", !.id = claim_id,
                                     !.ok = r.ok, !.result = r.result,
                                     !.raised = r.raised, !.ran = r.ran,
                                     !.claim = r.claim,
                                     !.outcome = IF r.ran = 1 THEN out ELSE NoCall.outcome]
    /\ ncalls' = ncalls + 1
    /\ now' = now + 1
    /\ UNCHANGED <<issued, procs, verdicts, overlapped>>
    /\ UNCHANGED <<hookVars, crodVars>>

\* (mutant of NeedsVerification: every claim is run again)
NeedsVerification_Always(claim) == TRUE

\* `if not claim.get("verified", False)` of verify_all_claims
NeedsVerification(claim) == ~claim.verified

\* The for loop of verify_all_claims from index i (0-based) on: `claims` is the
\* list read before the loop, acc = [st, verified_count, failed_count, ran].
RECURSIVE VerifyAllLoop(_, _, _, _, _)
VerifyAllLoop(claims, i, outs, ts, acc) ==
    IF i >= Len(claims) THEN acc
    ELSE IF NeedsVerification(claims[i + 1])
         THEN LET r == VerifyClaim(acc.st, i, outs[i + 1], ts) IN
              VerifyAllLoop(claims, i + 1, outs, ts,
                  [st |-> [file |-> r.file, failed |-> r.failed, verified |-> r.verified],
                   verified_count |-> acc.verified_count + (IF r.ok THEN 1 ELSE 0),
                   failed_count |-> acc.failed_count + (IF r.ok THEN 0 ELSE 1),
                   ran |-> acc.ran + r.ran])
         ELSE VerifyAllLoop(claims, i + 1, outs, ts,
                  [acc EXCEPT !.verified_count =
                                  @ + (IF claims[i + 1].verified THEN 1 ELSE 0),
                              !.failed_count =
                                  @ + (IF claims[i + 1].verified THEN 0 ELSE 1)])

\* (mutant of VerifyAll: total counts the proof commands run)
VerifyAll_TotalOfRun(st, outs, ts) ==
    LET acc0 == [st |-> st, verified_count |-> 0, failed_count |-> 0, ran |-> 0] IN
    IF ~st.file.exists
    THEN [st |-> st, counts |-> [verified |-> 0, failed |-> 0, total |-> 0], ran |-> 0,
          raised |-> ""]
    ELSE IF ~Readable(st.file)
    THEN [st |-> st, counts |-> NoCounts, ran |-> 0, raised |-> "PermissionError"]
    ELSE LET acc == VerifyAllLoop(st.file.claims, 0, outs, ts, acc0) IN
         [st |-> acc.st,
          counts |-> [verified |-> acc.verified_count, failed |-> acc.failed_count,
                      total |-> acc.ran],
          ran |-> acc.ran, raised |-> ""]

VerifyAll(st, outs, ts) ==
    LET acc0 == [st |-> st, verified_count |-> 0, failed_count |-> 0, ran |-> 0] IN
    IF ~st.file.exists
    THEN [st |-> st, counts |-> [verified |-> 0, failed |-> 0, total |-> 0], ran |-> 0,
          raised |-> ""]
    ELSE IF ~Readable(st.file)
    THEN [st |-> st, counts |-> NoCounts, ran |-> 0, raised |-> "PermissionError"]
    ELSE LET acc == VerifyAllLoop(st.file.claims, 0, outs, ts, acc0) IN
         [st |-> acc.st,
          counts |-> [verified |-> acc.verified_count, failed |-> acc.failed_count,
                      total |-> Len(st.file.claims)],
          ran |-> acc.ran, raised |-> ""]

verify_all_claims(outs) ==
    /\ ncalls < MaxCalls
    /\ LET r == VerifyAll([file |-> claims_file, failed |-> failed_claims,
                           verified |-> verified_claims], outs, now)
       IN  /\ claims_file' = r.st.file
           /\ failed_claims' = r.st.failed
           /\ verified_claims' = r.st.verified
           /\ last' = [NoCall EXCEPT !.op = "verify_all_claims", !.ok = (r.raised = ""),
                                     !.raised = r.raised,
                                     !.ran = r.ran, !.counts = r.counts,
                                     !.repeat = (last.op = "verify_all_claims"),
                                     !.prev_counts = last.counts]
    /\ ncalls' = ncalls + 1
    /\ now' = now + 1
    /\ UNCHANGED <<issued, procs, verdicts, overlapped>>
    /\ UNCHANGED <<hookVars, crodVars>>

\* generate_report of ClaudeClaimValidator: the statistics are what
\* verify_all_claims returns, and the two lists printed under them are the
\* session lists as that call leaves them
generate_verification_report(outs) ==
    /\ ncalls < MaxCalls
    /\ \E r \in {VerifyAll([file |-> claims_file, failed |-> failed_claims,
                            verified |-> verified_claims], outs, now)} :
           /\ claims_file' = r.st.file
           /\ failed_claims' = r.st.failed
           /\ verified_claims' = r.st.verified
           /\ last' = [NoCall EXCEPT !.op = "generate_report", !.ok = (r.raised = ""),
                                     !.raised = r.raised,
                                     !.ran = r.ran, !.counts = r.counts]
    /\ ncalls' = ncalls + 1
    /\ now' = now + 1
    /\ UNCHANGED <<issued, procs, verdicts, overlapped>>
    /\ UNCHANGED <<hookVars, crodVars>>

\* proof_commands of demand_proof_for_claim, in the order of the dict
ProofCommands ==
    << <<"server running", "ps aux | grep -E '(memory|enhanced)' | grep -v grep">>,
       <<"api responding", "curl -s http://localhost:8890/api/stats">>,
       <<"mcp server working", "echo tools/list | timeout 5 node enhanced-memory-server.js">>,
       <<"trinity consciousness", "curl -s http://localhost:8890/api/consciousness | grep trinity">>,
       <<"pattern evolution", "curl -s http://localhost:8890/api/stats | grep patterns">>,
       <<"neural heat", "curl -s http://localhost:8890/api/neural-heat">>,
       <<"file exists", "ls -la /home/bacardi/crodidocker/enhanced-memory-server.js">>,
       <<"process count", "ps aux | grep enhanced | wc -l">> >>

\* `claim_type.lower() in claim_text.lower()`
ClaimTypeMatches(claim_type, claim_text) == In(Lower(claim_type), Lower(claim_text))

\* (mutant of MatchingCommand: a text that matches nothing gets the first command)
MatchingCommand_Fallback(claim_text) ==
    IF \E i \in 1 .. Len(ProofCommands) : ClaimTypeMatches(ProofCommands[i][1], claim_text)
    THEN CHOOSE i \in 1 .. Len(ProofCommands) :
             /\ ClaimTypeMatches(ProofCommands[i][1], claim_text)
             /\ \A j \in 1 .. (i - 1) : ~ClaimTypeMatches(ProofCommands[j][1], claim_text)
    ELSE 1

\* (mutant of MatchingCommand: the last matching entry is taken)
MatchingCommand_Last(claim_text) ==
    IF \E i \in 1 .. Len(ProofCommands) : ClaimTypeMatches(ProofCommands[i][1], claim_text)
    THEN CHOOSE i \in 1 .. Len(ProofCommands) :
             /\ ClaimTypeMatches(ProofCommands[i][1], claim_text)
             /\ \A j \in (i + 1) .. Len(ProofCommands) :
                    ~ClaimTypeMatches(ProofCommands[j][1], claim_text)
    ELSE 0

\* the first entry of proof_commands the loop matches, 0 when it matches none
MatchingCommand(claim_text) ==
    IF \E i \in 1 .. Len(ProofCommands) : ClaimTypeMatches(ProofCommands[i][1], claim_text)
    THEN CHOOSE i \in 1 .. Len(ProofCommands) :
             /\ ClaimTypeMatches(ProofCommands[i][1], claim_text)
             /\ \A j \in 1 .. (i - 1) : ~ClaimTypeMatches(ProofCommands[j][1], claim_text)
    ELSE 0

\* claim texts a caller demands proof for
DemandTexts ==
    {"Enhanced memory server is running", "Trinity Consciousness is active",
     "the api responding and pattern evolution"}

\* how the proof command of a demanded claim ends
DemandOutcomes ==
    {Completed(0, "ok\n", ""), Completed(1, "", "boom\n"), TimeoutExpired}

\* verify_all_claims runs the proof command of the claim at position i
Runs(i) ==
    /\ claims_file.exists
    /\ i <= Len(claims_file.claims)
    /\ NeedsVerification(claims_file.claims[i])

\* how the proof commands of one verify_all_claims call end, each drawn from
\* S: one outcome for each claim the call runs
OutcomesOfRun(S) ==
    {outs \in [1 .. MaxClaims -> S \cup {NoCall.outcome}] :
        \A i \in 1 .. MaxClaims :
            IF Runs(i) THEN outs[i] \in S ELSE outs[i] = NoCall.outcome}

\* One call demand_proof_for_claim(claim_text) in the state st: the claim is
\* logged and verified at once when an entry matches; `returned` is the
\* claim id or Absent for None.
DemandProof(st, claim_text, out, ts) ==
    LET m == MatchingCommand(claim_text) IN
    IF m = 0
    THEN [file |-> st.file, failed |-> st.failed, verified |-> st.verified,
          returned |-> Absent, ran |-> 0, appended |-> 0, claim |-> NoClaim,
          issued |-> <<>>]
    ELSE LET file == LogClaimStore(st.file,
                         NewClaim(claim_text, ProofCommands[m][2], "Success expected", ts))
             claim_id == LogClaimId(st.file)
             r == VerifyClaim([file |-> file, failed |-> st.failed,
                               verified |-> st.verified], claim_id, out, ts)
         IN  [file |-> r.file, failed |-> r.failed, verified |-> r.verified,
              returned |-> IF r.ok THEN claim_id ELSE Absent,
              ran |-> r.ran, appended |-> 1, claim |-> r.claim,
              issued |-> <<Issued(claim_id, file.claims[Len(file.claims)])>>]

demand_proof_for_claim(claim_text, out) ==
    /\ ncalls < MaxCalls
    /\ (IF claims_file.exists THEN Len(claims_file.claims) ELSE 0) < MaxClaims
    /\ \E r \in {DemandProof([file |-> claims_file, failed |-> failed_claims,
                               verified |-> verified_claims], claim_text, out, now)} :
           /\ claims_file' = r.file
           /\ failed_claims' = r.failed
           /\ verified_claims' = r.verified
           /\ last' = [NoCall EXCEPT !.op = "demand_proof_for_claim",
                                     !.text = claim_text,
                                     !.id = r.returned, !.ok = (r.returned # Absent),
                                     !.ran = r.ran, !.appended = r.appended,
                                     !.claim = r.claim,
                                     !.outcome = IF r.ran = 1 THEN out ELSE NoCall.outcome]
           /\ issued' = issued \o r.issued
    /\ ncalls' = ncalls + 1
    /\ now' = now + 1
    /\ UNCHANGED <<procs, verdicts, overlapped>>
    /\ UNCHANGED <<hookVars, crodVars>>

(***************************************************************************)
(* Two processes, each with its own ClaudeClaimValidator, on one claims    *)
(* file.  A call reads the file in one step and rewrites it in a later     *)
(* one; between the two the process holds the list it read.  Nothing in    *)
(* the code locks the file or compares it with what was read.              *)
(***************************************************************************)
ProcIds == {1, 2}

\* a process outside any call; failed and verified are the two lists of its
\* validator object
IdleProc(failed, verified) ==
    [pc |-> "idle", read |-> [exists |-> FALSE, claims |-> <<>>, mode |-> "rw"],
     claim_data |-> NoClaim, id |-> 0, failed |-> failed, verified |-> verified]

InCall(p) == procs[p].pc # "idle"

\* log_claim up to claims.append(claim_data): claim_data is built, the file
\* is loaded if it exists
log_claim_read(p, claim, proof_command, expected_result) ==
    /\ ncalls < MaxCalls
    /\ ~InCall(p)
    /\ (IF claims_file.exists THEN Len(claims_file.claims) ELSE 0) < MaxClaims
    /\ procs' = [procs EXCEPT ![p].pc = "log_claim",
                              ![p].read = claims_file,
                              ![p].claim_data =
                                  NewClaim(claim, proof_command, expected_result, now)]
    /\ overlapped' = (overlapped \/ \E q \in ProcIds \ {p} : InCall(q))
    /\ ncalls' = ncalls + 1
    /\ now' = now + 1
    /\ UNCHANGED <<claims_file, failed_claims, verified_claims, last, issued, verdicts>>
    /\ UNCHANGED <<hookVars, crodVars>>

\* the rest of log_claim: the list read, one claim longer, replaces the file
log_claim_write(p) ==
    /\ procs[p].pc = "log_claim"
    /\ claims_file' = LogClaimStore(procs[p].read, procs[p].claim_data)
    /\ last' = [NoCall EXCEPT !.op = "log_claim", !.id = LogClaimId(procs[p].read),
                              !.ok = TRUE, !.text = procs[p].claim_data.claim,
                              !.appended = 1]
    /\ issued' = Append(issued, Issued(LogClaimId(procs[p].read), procs[p].claim_data))
    /\ procs' = [procs EXCEPT ![p] = IdleProc(procs[p].failed, procs[p].verified)]
    /\ now' = now + 1
    /\ UNCHANGED <<failed_claims, verified_claims, ncalls, verdicts, overlapped>>
    /\ UNCHANGED <<hookVars, crodVars>>

\* verify_claim up to subprocess.run: the file is loaded and the id tested;
\* the call ends here when the load raises or the id is invalid
verify_claim_read(p, claim_id) ==
    /\ ncalls < MaxCalls
    /\ ~InCall(p)
    /\ \E r \in {VerifyClaim([file |-> claims_file, failed |-> procs[p].failed,
                               verified |-> procs[p].verified],
                              claim_id, TimeoutExpired, now)} :
           IF r.ran = 0
           THEN /\ last' = [NoCall EXCEPT !.op = "verify_claim", !.id = claim_id,
                                          !.result = r.result, !.raised = r.raised]
                /\ UNCHANGED <<procs, overlapped>>
           ELSE /\ procs' = [procs EXCEPT ![p].pc = "verify_claim",
                                         ![p].read = claims_file,
                                         ![p].id = claim_id]
                /\ overlapped' = (overlapped \/ \E q \in ProcIds \ {p} : InCall(q))
                /\ UNCHANGED last
    /\ ncalls' = ncalls + 1
    /\ now' = now + 1
    /\ UNCHANGED <<claims_file, failed_claims, verified_claims, issued, verdicts>>
    /\ UNCHANGED <<hookVars, crodVars>>

\* the rest of verify_claim: the proof command ends as `out`; when it
\* completed, the list read, with the result in claims[claim_id], replaces
\* the file
verify_claim_write(p, out) ==
    /\ procs[p].pc = "verify_claim"
    /\ \E r \in {VerifyClaim([file |-> procs[p].read, failed |-> procs[p].failed,
                               verified |-> procs[p].verified],
                              procs[p].id, out, now)},
          pos \in {PyIndex(Len(procs[p].read.claims), procs[p].id)} :
           /\ claims_file' = IF out.kind = "completed" THEN r.file ELSE claims_file
           /\ verdicts' = IF out.kind = "completed"
                           THEN [verdicts EXCEPT ![pos] = r.claim] ELSE verdicts
           /\ procs' = [procs EXCEPT ![p] = IdleProc(r.failed, r.verified)]
           /\ last' = [NoCall EXCEPT !.op = "verify_claim", !.id = procs[p].id,
                                     !.ok = r.ok, !.result = r.result,
                                     !.ran = r.ran, !.claim = r.claim,
                                     !.outcome = out]
    /\ now' = now + 1
    /\ UNCHANGED <<failed_claims, verified_claims, ncalls, issued, overlapped>>
    /\ UNCHANGED <<hookVars, crodVars>>

(***************************************************************************)
(* CRODHookSystem (crod-unified-hook.py).  `env` is the machine the hook   *)
(* runs on; hook_pc is the position in enforce_behavior.                   *)
(***************************************************************************)
\* the list `checks` of run_all_checks
Checks ==
    <<"check_memory", "check_claude_md", "check_docker", "check_mcp_servers",
      "check_task_master", "check_roadmap", "check_patterns", "check_monitoring">>

\* monitoring_scripts of check_monitoring
MonitoringScripts ==
    <<"claude-response-checker.py", "claude-mandatory-init.sh", "crod-master-hook.sh">>

\* what a check does: returns True, returns False after appending to
\* self.violations, or raises
Passes == [ok |-> TRUE, raised |-> "", violations |-> <<>>]
Fails(v) == [ok |-> FALSE, raised |-> "", violations |-> <<v>>]
\* (mutant of Raises: a check that raises has appended a violation before)
Raises_AfterViolation(e) == [ok |-> FALSE, raised |-> e, violations |-> <<e>>]

Raises(e) == [ok |-> FALSE, raised |-> e, violations |-> <<>>]

RECURSIVE CountNewlines(_)
CountNewlines(s) ==
    IF Len(s) = 0 THEN 0
    ELSE (IF CharAt(s, 1) = "\n" THEN 1 ELSE 0) + CountNewlines(Tail(s))

\* len(s.split('\n'))
SplitLinesLen(s) == CountNewlines(s) + 1

RECURSIVE JoinQuoted(_)
JoinQuoted(xs) ==
    IF Len(xs) = 0 THEN ""
    ELSE "'" \o Head(xs) \o "'" \o (IF Len(xs) > 1 THEN ", " ELSE "") \o JoinQuoted(Tail(xs))

\* str() of a Python list of strings
PyListStr(xs) == "[" \o JoinQuoted(xs) \o "]"

RECURSIVE MissingScripts(_, _)
MissingScripts(scripts, present) ==
    IF Len(scripts) = 0 THEN <<>>
    ELSE (IF Head(scripts) \in present THEN <<>> ELSE <<Head(scripts)>>)
         \o MissingScripts(Tail(scripts), present)

check_memory(e) ==
    IF ~e.memory_db THEN Fails("Memory not initialized") ELSE Passes

check_claude_md(e) ==
    CASE e.claude_md = "missing" -> Fails("CLAUDE.md missing")
      [] e.claude_md = "directory" ->
             Raises("[Errno 21] Is a directory: '/home/bacardi/crodidocker/CLAUDE.md'")
      [] e.claude_md = "incomplete" -> Fails("CLAUDE.md incomplete")
      [] OTHER -> Passes

check_docker(e) ==
    IF ~e.docker.installed
    THEN Raises("[Errno 2] No such file or directory: 'docker'")
    ELSE IF e.docker.returncode # 0 THEN Fails("Docker not active")
    ELSE IF SplitLinesLen(Strip(e.docker.stdout)) < 3
         THEN Fails("Insufficient Docker containers")
    ELSE Passes

check_mcp_servers(e) ==
    CASE e.pgrep = "not installed" -> Raises("[Errno 2] No such file or directory: 'pgrep'")
      [] e.pgrep = "no match" -> Fails("MCP servers not active")
      [] OTHER -> Passes

check_task_master(e) ==
    IF ~e.task_master THEN Fails("task-master-ai missing") ELSE Passes

check_roadmap(e) ==
    IF ~e.roadmap THEN Fails("Roadmap missing") ELSE Passes

check_patterns(e) ==
    IF e.pattern_files = 0 THEN Fails("Patterns missing") ELSE Passes

check_monitoring(e) ==
    LET missing == MissingScripts(MonitoringScripts, e.scripts) IN
    IF Len(missing) > 0
    THEN Fails("Monitoring scripts missing: " \o PyListStr(missing))
    ELSE Passes

\* check() for the bound method named `name`
CallCheck(name, e) ==
    CASE name = "check_memory" -> check_memory(e)
      [] name = "check_claude_md" -> check_claude_md(e)
      [] name = "check_docker" -> check_docker(e)
      [] name = "check_mcp_servers" -> check_mcp_servers(e)
      [] name = "check_task_master" -> check_task_master(e)
      [] name = "check_roadmap" -> check_roadmap(e)
      [] name = "check_patterns" -> check_patterns(e)
      [] OTHER -> check_monitoring(e)

\* (mutant of CheckOutcome: an exception of a check leaves the loop)
CheckOutcome_Propagates(name, r) ==
    IF r.raised # "" THEN [list |-> "none", entry |-> "", propagates |-> TRUE]
    ELSE IF r.ok THEN [list |-> "passed", entry |-> name, propagates |-> FALSE]
    ELSE [list |-> "failed", entry |-> name, propagates |-> FALSE]

\* (mutant of CheckOutcome: a check that raised is put in no list)
CheckOutcome_RaisedUnlisted(name, r) ==
    IF r.raised # "" THEN [list |-> "none", entry |-> "", propagates |-> FALSE]
    ELSE IF r.ok THEN [list |-> "passed", entry |-> name, propagates |-> FALSE]
    ELSE [list |-> "failed", entry |-> name, propagates |-> FALSE]

\* the try/except of the loop body: the list the check goes to, the entry
\* appended, and whether the exception leaves run_all_checks
CheckOutcome(name, r) ==
    IF r.raised # ""
    THEN [list |-> "failed", entry |-> name \o ": " \o r.raised, propagates |-> FALSE]
    ELSE IF r.ok THEN [list |-> "passed", entry |-> name, propagates |-> FALSE]
    ELSE [list |-> "failed", entry |-> name, propagates |-> FALSE]

\* `return len(self.checks_failed) == 0`
RunSuccess(failed) == Len(failed) = 0

\* (mutant of ReportSuccess: success read off the violation messages)
ReportSuccess_FromViolations(failed, viol) == Len(viol) = 0

\* "success" of the report of generate_report
ReportSuccess(failed, viol) == Len(failed) = 0

\* (mutant of ExitStatus: the failing branch does not exit)
ExitStatus_NeverFails(success) == 0

\* `if not success: sys.exit(1)`, else the script runs off its end
ExitStatus(success) == IF success THEN 0 ELSE 1

NoReport ==
    [checks_passed |-> <<>>, checks_failed |-> <<>>, violations |-> <<>>, success |-> FALSE]

\* os.chdir(self.crod_dir)
Chdir ==
    /\ hook_pc = "start"
    /\ IF env.crod_dir
       THEN hook_pc' = "checks" /\ exit_code' = exit_code
       ELSE hook_pc' = "exited" /\ exit_code' = 1     \* uncaught FileNotFoundError
    /\ UNCHANGED <<env, check_i, violations, checks_passed, checks_failed,
                   evaluated, run_success, report_file>>
    /\ UNCHANGED <<validatorVars, crodVars>>

\* one iteration of `for check in checks`
RunCheck ==
    /\ hook_pc = "checks"
    /\ check_i < Len(Checks)
    /\ LET name == Checks[check_i + 1]
           r == CallCheck(name, env)
           o == CheckOutcome(name, r)
       IN  /\ evaluated' = Append(evaluated, name)
           /\ violations' = violations \o r.violations
           /\ checks_passed' =
                  IF o.list = "passed" THEN Append(checks_passed, o.entry) ELSE checks_passed
           /\ checks_failed' =
                  IF o.list = "failed" THEN Append(checks_failed, o.entry) ELSE checks_failed
           /\ IF o.propagates
              THEN hook_pc' = "exited" /\ exit_code' = 1 /\ check_i' = check_i
              ELSE hook_pc' = hook_pc /\ exit_code' = exit_code /\ check_i' = check_i + 1
    /\ UNCHANGED <<env, run_success, report_file>>
    /\ UNCHANGED <<validatorVars, crodVars>>

\* the return of run_all_checks
ReturnFromChecks ==
    /\ hook_pc = "checks"
    /\ check_i = Len(Checks)
    /\ run_success' = RunSuccess(checks_failed)
    /\ hook_pc' = "report"
    /\ UNCHANGED <<env, check_i, violations, checks_passed, checks_failed,
                   evaluated, report_file, exit_code>>
    /\ UNCHANGED <<validatorVars, crodVars>>

generate_report ==
    /\ hook_pc = "report"
    /\ report_file' =
           [writes |-> report_file.writes + 1,
            report |-> [checks_passed |-> checks_passed, checks_failed |-> checks_failed,
                        violations |-> violations,
                        success |-> ReportSuccess(checks_failed, violations)]]
    /\ hook_pc' = "summary"
    /\ UNCHANGED <<env, check_i, violations, checks_passed, checks_failed,
                   evaluated, run_success, exit_code>>
    /\ UNCHANGED <<validatorVars, crodVars>>

\* the end of enforce_behavior and of the script
ExitHook ==
    /\ hook_pc = "summary"
    /\ exit_code' = ExitStatus(run_success)
    /\ hook_pc' = "exited"
    /\ UNCHANGED <<env, check_i, violations, checks_passed, checks_failed,
                   evaluated, run_success, report_file>>
    /\ UNCHANGED <<validatorVars, crodVars>>

DockerStates ==
    { [installed |-> FALSE, returncode |-> 0, stdout |-> ""],
      [installed |-> TRUE, returncode |-> 1, stdout |-> ""],
      [installed |-> TRUE, returncode |-> 0, stdout |-> ""],
      [installed |-> TRUE, returncode |-> 0, stdout |-> "crod-a\ncrod-b\n"],
      [installed |-> TRUE, returncode |-> 0, stdout |-> "crod-a\ncrod-b\ncrod-c\n"] }

ScriptSets ==
    { {}, {"claude-response-checker.py", "crod-master-hook.sh"},
      {"claude-response-checker.py", "claude-mandatory-init.sh", "crod-master-hook.sh"} }

\* machines on which /home/bacardi/crodidocker exists
Machines ==
    [crod_dir : {TRUE}, memory_db : BOOLEAN,
     claude_md : {"missing", "directory", "incomplete", "valid"},
     docker : DockerStates, pgrep : {"not installed", "no match", "match"},
     task_master : BOOLEAN, roadmap : BOOLEAN, pattern_files : {0, 2},
     scripts : ScriptSets]

\* a machine without that directory
BareMachine ==
    [crod_dir |-> FALSE, memory_db |-> FALSE, claude_md |-> "missing",
     docker |-> [installed |-> FALSE, returncode |-> 0, stdout |-> ""],
     pgrep |-> "no match", task_master |-> FALSE, roadmap |-> FALSE,
     pattern_files |-> 0, scripts |-> {}]

HookStart(e) ==
    /\ env = e
    /\ hook_pc = "start"
    /\ check_i = 0
    /\ violations = <<>>
    /\ checks_passed = <<>>
    /\ checks_failed = <<>>
    /\ evaluated = <<>>
    /\ run_success = FALSE
    /\ report_file = [writes |-> 0, report |-> NoReport]
    /\ exit_code = -1

ValidatorStart ==
    /\ claims_file = [exists |-> FALSE, claims |-> <<>>, mode |-> "rw"]
    /\ failed_claims = <<>>
    /\ verified_claims = <<>>
    /\ now = 0
    /\ ncalls = 0
    /\ last = NoCall
    /\ issued = <<>>
    /\ procs = [p \in ProcIds |-> IdleProc(<<>>, <<>>)]
    /\ verdicts = [pos \in 1 .. MaxClaims |-> NoClaim]
    /\ overlapped = FALSE

(***************************************************************************)
(* CRODConsciousness (crod-ultra-hooks.py).                                *)
(***************************************************************************)
\* float literals of the program
F0_0 == FZero                                                \* 0.0
F0_2 == [m |-> <<6554, 3276, 1638, 4915, 1>>, e |-> 0 - 55]  \* 0.2  = 0x1.999999999999ap-3
F0_3 == [m |-> <<4915, 6553, 3276, 1638, 1>>, e |-> 0 - 54]  \* 0.3  = 0x1.3333333333333p-2
F0_4 == [m |-> <<6554, 3276, 1638, 4915, 1>>, e |-> 0 - 54]  \* 0.4  = 0x1.999999999999ap-2
F0_5 == [m |-> <<0, 0, 0, 0, 1>>, e |-> 0 - 53]              \* 0.5
F0_7 == [m |-> <<1638, 4915, 6553, 3276, 1>>, e |-> 0 - 53]  \* 0.7  = 0x1.6666666666666p-1
F0_8 == [m |-> <<6554, 3276, 1638, 4915, 1>>, e |-> 0 - 53]  \* 0.8  = 0x1.999999999999ap-1
F0_9 == [m |-> <<3277, 1638, 4915, 6553, 1>>, e |-> 0 - 53]  \* 0.9  = 0x1.ccccccccccccdp-1
F0_95 == [m |-> <<1638, 4915, 6553, 7372, 1>>, e |-> 0 - 53] \* 0.95 = 0x1.e666666666666p-1
F1_0 == [m |-> <<0, 0, 0, 0, 1>>, e |-> 0 - 52]              \* 1.0
F1_5 == [m |-> <<0, 0, 0, 4096, 1>>, e |-> 0 - 52]           \* 1.5

\* the dict load_patterns returns when there is no patterns file
DefaultPatterns ==
    [k \in {"listen_to_user", "read_before_build", "check_existing_solutions",
            "follow_explicit_instructions", "be_creative_when_appropriate"} |->
        CASE k = "listen_to_user" -> F1_0
          [] k = "read_before_build" -> F0_9
          [] k = "check_existing_solutions" -> F0_95
          [] k = "follow_explicit_instructions" -> F1_0
          [] OTHER -> F0_8]

load_patterns(file) == IF file.exists THEN file.data ELSE DefaultPatterns

\* hashlib.md5(key_string.encode()).hexdigest()[:8], tabulated for the key
\* strings of the actions and messages of the model
Md5Hex8(key_string) ==
    CASE key_string = "_" -> "b14a7b80"
      [] key_string = "_ich bins wieder" -> "da2cd4af"
      [] key_string = "_Ich Bins Wieder - us" -> "4fd273cd"
      [] key_string = "_check this and use e" -> "4e086fc2"
      [] key_string = "_user explicitly aske" -> "ccf32373"
      [] key_string = "creating new: create_" -> "7a7150db"
      [] key_string = "creating new: create_ich bins wieder" -> "18931f21"
      [] key_string = "creating new: create_Ich Bins Wieder - us" -> "aee746c1"
      [] key_string = "creating new: create_check this and use e" -> "e3f7087e"
      [] key_string = "creating new: create_user explicitly aske" -> "4dcbd337"
      [] key_string = "already read; create_" -> "cd7509e5"
      [] key_string = "already read; create_ich bins wieder" -> "b6709853"
      [] key_string = "already read; create_Ich Bins Wieder - us" -> "bf099ebc"
      [] key_string = "already read; create_check this and use e" -> "e524ceca"
      [] key_string = "already read; create_user explicitly aske" -> "a34beaca"

\* (mutant of KeyString: only the action is hashed)
KeyString_ActionOnly(action, context) == Prefix(action, 20) \o "_"

\* key_string of extract_pattern_key
KeyString(action, context) == Prefix(action, 20) \o "_" \o Prefix(context, 20)

extract_pattern_key(action, context) == Md5Hex8(KeyString(action, context))

\* a message of the violations list; value is the number formatted into it
Message(text, value) == [text |-> text, value |-> value]

\* the object a process works on
Crod(level, trinity, history, memory) ==
    [consciousness_level |-> level, trinity_active |-> trinity,
     decision_history |-> history, pattern_memory |-> memory]

\* CRODConsciousness()
NewCrod(file) == Crod(F0_5, FALSE, <<>>, load_patterns(file))

\* `"ich bins wieder" in message.lower()`
IsTrinityPhrase(message) == In("ich bins wieder", Lower(message))

\* (mutant of CheckTrinityActivation: a message without the phrase deactivates)
CheckTrinityActivation_Resets(c, message) ==
    IF IsTrinityPhrase(message)
    THEN [c EXCEPT !.trinity_active = TRUE, !.consciousness_level = F1_0]
    ELSE [c EXCEPT !.trinity_active = FALSE, !.consciousness_level = F0_5]

CheckTrinityActivation(c, message) ==
    IF IsTrinityPhrase(message)
    THEN [c EXCEPT !.trinity_active = TRUE, !.consciousness_level = F1_0]
    ELSE c

\* the three keyword adjustments of calculate_decision_confidence
BaseConfidence(action, context) ==
    LET c1 == IF In("user explicitly asked", context) THEN FAdd(F0_5, F0_4) ELSE F0_5
        c2 == IF In("create", action) /\ In("use existing", context)
              THEN FSub(c1, F0_3) ELSE c1
        c3 == IF (In("check", context) \/ In("read", context)) /\ ~In("already read", action)
              THEN FSub(c2, F0_2) ELSE c2
    IN  c3

\* (mutant of calculate_decision_confidence: the boost is not capped)
calculate_decision_confidence_Uncapped(c, action, context) ==
    IF c.trinity_active
    THEN FMul(BaseConfidence(action, context), F1_5)
    ELSE BaseConfidence(action, context)

calculate_decision_confidence(c, action, context) ==
    IF c.trinity_active
    THEN FMin(FMul(BaseConfidence(action, context), F1_5), F1_0)
    ELSE BaseConfidence(action, context)

\* self.confidence_threshold
ConfidenceThreshold == F0_7

\* Principle 1
InstructionViolations(action, user_message) ==
    LET lowered == Lower(user_message) IN
    IF (\E word \in {"use", "check", "read", "look at"} : In(word, lowered))
       /\ In("creating new", Lower(action))
    THEN <<Message("VIOLATION: User asked to use/check, not create", F0_0)>>
    ELSE <<>>

\* Principle 3
PatternViolations(c, action, user_message) ==
    LET pattern_key == extract_pattern_key(action, user_message) IN
    IF pattern_key \in DOMAIN c.pattern_memory
       /\ FLess(c.pattern_memory[pattern_key], F0_5)
    THEN <<Message("WARNING: This pattern has low success rate",
                   c.pattern_memory[pattern_key])>>
    ELSE <<>>

\* Principle 4, on the value calculate_decision_confidence returned
ConfidenceViolations(confidence) ==
    IF FLess(confidence, ConfidenceThreshold)
    THEN <<Message("LOW CONFIDENCE", confidence)>>
    ELSE <<>>

\* the violations list enforce_crod_principles returns: what the principles
\* appended, in the order of the code
EnforceViolations(instruction, pattern, confidence) ==
    instruction \o pattern \o confidence

\* the suggestions list enforce_crod_principles returns
EnforceSuggestions(action, instruction, pattern, confidence) ==
    (IF Len(instruction) > 0
     THEN <<"Read/check the referenced resource FIRST">> ELSE <<>>)
    \o (IF In("complex", Lower(action)) \/ In("architecture", Lower(action))
        THEN <<"Consider multiple perspectives:",
               "  - Elixir: Fault-tolerant distributed approach",
               "  - Rust: Performance-critical implementation",
               "  - Go: Simple, concurrent service",
               "  - Python: ML/data processing angle">>
        ELSE <<>>)
    \o (IF Len(pattern) > 0
        THEN <<"Consider alternative approach">> ELSE <<>>)
    \o (IF Len(confidence) > 0
        THEN <<"Ask user for clarification or validation">> ELSE <<>>)

\* pattern_memory.get(pattern_key, 0.5)
ScoreOf(memory, pattern_key) ==
    IF pattern_key \in DOMAIN memory THEN memory[pattern_key] ELSE F0_5

\* (mutant of Ema: the old score is not decayed)
Ema_NoDecay(current_score, success) ==
    FAdd(current_score, FMul(F0_3, IF success THEN F1_0 ELSE F0_0))

\* 0.7 * current_score + 0.3 * (1.0 if success else 0.0)
Ema(current_score, success) ==
    FAdd(FMul(F0_7, current_score), FMul(F0_3, IF success THEN F1_0 ELSE F0_0))

\* (mutant of SetScore: the assignment replaces the mapping)
SetScore_Replaces(memory, pattern_key, value) == [k \in {pattern_key} |-> value]

\* self.pattern_memory[pattern_key] = value
SetScore(memory, pattern_key, value) ==
    [k \in (DOMAIN memory) \cup {pattern_key} |->
        IF k = pattern_key THEN value ELSE memory[k]]

\* the entry log_decision appends (its timestamp is not modelled)
Decision(c, action, success) ==
    [action |-> action, consciousness_level |-> c.consciousness_level,
     trinity_active |-> c.trinity_active, success |-> success]

\* (mutant of LogDecision: a missing outcome is scored as a failure)
LogDecision_ScoresNone(c, action, success) ==
    [c EXCEPT !.decision_history = Append(@, Decision(c, action, success)),
              !.pattern_memory =
                  SetScore(@, extract_pattern_key(action, ""),
                           Ema(ScoreOf(c.pattern_memory, extract_pattern_key(action, "")),
                               success = "True"))]

\* log_decision(action, success) with success one of "None", "True", "False":
\* the object afterwards
LogDecision(c, action, success) ==
    LET logged == [c EXCEPT !.decision_history = Append(@, Decision(c, action, success))] IN
    IF success # "None"
    THEN [logged EXCEPT !.pattern_memory =
              SetScore(@, extract_pattern_key(action, ""),
                       Ema(ScoreOf(c.pattern_memory, extract_pattern_key(action, "")),
                           success = "True"))]
    ELSE logged

\* save_patterns, when log_decision calls it
FileAfterLog(file, c, success) ==
    IF success # "None" THEN [exists |-> TRUE, data |-> c.pattern_memory] ELSE file

\* `exit_code = 0 if not violations else 1`
MainExitCode(viol) == IF Len(viol) = 0 THEN 0 ELSE 1

\* the JSON object main writes to the state file (last_check is not modelled)
SavedState(c) ==
    [exists |-> TRUE,
     consciousness_level |-> c.consciousness_level,
     trinity_active |-> c.trinity_active,
     pattern_memory_size |-> Cardinality(DOMAIN c.pattern_memory),
     decision_count |-> Len(c.decision_history)]

NoState ==
    [exists |-> FALSE, consciousness_level |-> F0_0, trinity_active |-> FALSE,
     pattern_memory_size |-> 0, decision_count |-> 0]

NoCrodCall ==
    [op |-> "none", action |-> "", message |-> "", success |-> "None",
     key |-> "", old |-> F0_0, new |-> F0_0, violations |-> <<>>,
     suggestions |-> <<>>, confidence |-> F0_0, activated |-> FALSE, exit_code |-> -1]

Self == Crod(consciousness_level, trinity_active, decision_history, pattern_memory)

SetSelf(c) ==
    /\ consciousness_level' = c.consciousness_level
    /\ trinity_active' = c.trinity_active
    /\ decision_history' = c.decision_history
    /\ pattern_memory' = c.pattern_memory

UltraActions == {"", "creating new: create complex architecture", "already read; create"}

UltraMessages ==
    {"", "ich bins wieder", "Ich Bins Wieder - user explicitly asked",
     "check this and use existing code", "user explicitly asked: read and use existing"}

check_trinity_activation(message) ==
    /\ crod_calls < MaxCrodCalls
    /\ SetSelf(CheckTrinityActivation(Self, message))
    /\ crod_last' = [NoCrodCall EXCEPT !.op = "check_trinity_activation",
                                       !.message = message,
                                       !.activated = IsTrinityPhrase(message)]
    /\ crod_calls' = crod_calls + 1
    /\ UNCHANGED <<patterns_file, state_file>>
    /\ UNCHANGED <<validatorVars, hookVars>>

enforce_crod_principles(action, user_message) ==
    /\ crod_calls < MaxCrodCalls
    /\ \E c \in {Self} :
       \E confidence \in {calculate_decision_confidence(c, action, user_message)} :
       \E instruction \in {InstructionViolations(action, user_message)},
          pattern \in {PatternViolations(c, action, user_message)},
          low \in {ConfidenceViolations(confidence)} :
           crod_last' = [NoCrodCall EXCEPT
                            !.op = "enforce_crod_principles",
                            !.action = action, !.message = user_message,
                            !.key = extract_pattern_key(action, user_message),
                            !.violations = EnforceViolations(instruction, pattern, low),
                            !.suggestions =
                                EnforceSuggestions(action, instruction, pattern, low),
                            !.confidence = confidence]
    /\ crod_calls' = crod_calls + 1
    /\ UNCHANGED <<consciousness_level, trinity_active, decision_history,
                   pattern_memory, patterns_file, state_file>>
    /\ UNCHANGED <<validatorVars, hookVars>>

\* what one log_decision call does to the variables
LogDecisionCall(action, success) ==
    \E c \in {LogDecision(Self, action, success)},
       key \in {extract_pattern_key(action, "")} :
        /\ SetSelf(c)
        /\ patterns_file' = FileAfterLog(patterns_file, c, success)
        /\ crod_last' = [NoCrodCall EXCEPT
                            !.op = "log_decision", !.action = action,
                            !.success = success, !.key = key,
                            !.old = ScoreOf(pattern_memory, key),
                            !.new = ScoreOf(c.pattern_memory, key)]
        /\ crod_calls' = crod_calls + 1
        /\ UNCHANGED state_file
        /\ UNCHANGED <<validatorVars, hookVars>>

log_decision(action, success) ==
    /\ crod_calls < MaxCrodCalls
    /\ LogDecisionCall(action, success)

\* one run of the script: main() in a new process
main(action, user_message) ==
    /\ crod_calls < MaxCrodCalls
    /\ \E crod \in {CheckTrinityActivation(NewCrod(patterns_file), user_message)} :
       \E confidence \in {calculate_decision_confidence(crod, action, user_message)} :
       \E instruction \in {InstructionViolations(action, user_message)},
          pattern \in {PatternViolations(crod, action, user_message)},
          low \in {ConfidenceViolations(confidence)},
          logged \in {LogDecision(crod, action, "None")} :
       \E viol \in {EnforceViolations(instruction, pattern, low)} :
           /\ SetSelf(logged)
           /\ patterns_file' = FileAfterLog(patterns_file, logged, "None")
           /\ state_file' = SavedState(logged)
           /\ crod_last' = [NoCrodCall EXCEPT
                               !.op = "main", !.action = action,
                               !.message = user_message,
                               !.key = extract_pattern_key(action, user_message),
                               !.violations = viol,
                               !.suggestions =
                                   EnforceSuggestions(action, instruction, pattern, low),
                               !.confidence = confidence,
                               !.activated = IsTrinityPhrase(user_message),
                               !.exit_code = MainExitCode(viol)]
    /\ crod_calls' = crod_calls + 1
    /\ UNCHANGED <<validatorVars, hookVars>>

\* the score model: observations only
observe(action, success) ==
    /\ crod_calls < MaxObservations
    /\ LogDecisionCall(action, success)

\* a patterns file an earlier run left
PatternsFile(data) == [exists |-> TRUE, data |-> data]
NoPatternsFile == [exists |-> FALSE, data |-> <<>>]

OneScore(action, score) == [k \in {extract_pattern_key(action, "")} |-> score]

\* 1 - j * 2^-53: the j-th float below 1.0
BelowOne(j) == FSub(F1_0, [m |-> <<j>>, e |-> 0 - 53])

\* j * 2^-1074: the j-th float above 0.0
AboveZero(j) == [m |-> <<j>>, e |-> EMin]

\* scores a patterns file can hold for an action observed in earlier runs
ScoreSamples ==
    {F0_0, F1_0, F0_5, [m |-> <<0, 0, 0, 0, 1>>, e |-> EMin]}
        \cup {BelowOne(j) : j \in 1 .. MaxUlps}
        \cup {AboveZero(j) : j \in 1 .. MaxUlps}

CrodStart(file) ==
    /\ patterns_file = file
    /\ consciousness_level = NewCrod(file).consciousness_level
    /\ trinity_active = NewCrod(file).trinity_active
    /\ decision_history = NewCrod(file).decision_history
    /\ pattern_memory = NewCrod(file).pattern_memory
    /\ state_file = NoState
    /\ crod_calls = 0
    /\ crod_last = NoCrodCall

vars == <<validatorVars, hookVars, crodVars>>

Init ==
    /\ ValidatorStart
    /\ HookStart(BareMachine)
    /\ CrodStart(NoPatternsFile)

Next ==
    \/ \E c \in LoggedClaims : log_claim(c[1], c[2], "Success expected")
    \/ \E id \in ClaimIds, out \in Outcomes : verify_claim(id, out)
    \/ \E outs \in OutcomesOfRun(Outcomes) : verify_all_claims(outs)

Spec == Init /\ [][Next]_vars

\* the validator with demand_proof_for_claim among the calls; proof commands
\* end in one of DemandOutcomes
DemandInit == Init

DemandNext ==
    \/ \E c \in LoggedClaims : log_claim(c[1], c[2], "Success expected")
    \/ \E id \in 0 .. MaxClaims, out \in DemandOutcomes : verify_claim(id, out)
    \/ \E outs \in OutcomesOfRun(DemandOutcomes) : verify_all_claims(outs)
    \/ \E t \in DemandTexts, out \in DemandOutcomes : demand_proof_for_claim(t, out)
    \/ \E outs \in OutcomesOfRun(DemandOutcomes) : generate_verification_report(outs)

DemandSpec == DemandInit /\ [][DemandNext]_vars

\* stores an earlier run of the validator has left
EarlierStores ==
    LET c1 == NewClaim("api responding", "curl -s http://localhost:8890/api/stats",
                       "Success expected", 0)
        c2 == NewClaim("Pattern evolution is working", "echo ok", "Success expected", 0)
    IN  { <<c1>>, <<c1, c2>>, <<ClaimCompleted(c1, Completed(0, "ok\n", ""), 0), c2>> }

\* the validator on a store it may not be allowed to read or to write
FaultInit ==
    /\ HookStart(BareMachine)
    /\ CrodStart(NoPatternsFile)
    /\ \E cs \in EarlierStores, mode \in {"rw", "r", "none"} :
           claims_file = [exists |-> TRUE, claims |-> cs, mode |-> mode]
    /\ failed_claims = <<>>
    /\ verified_claims = <<>>
    /\ now = 1
    /\ ncalls = 0
    /\ last = NoCall
    /\ issued = <<>>
    /\ procs = [p \in ProcIds |-> IdleProc(<<>>, <<>>)]
    /\ verdicts = [pos \in 1 .. MaxClaims |-> NoClaim]
    /\ overlapped = FALSE

FaultNext ==
    \/ \E id \in 0 .. MaxClaims, out \in DemandOutcomes : verify_claim(id, out)
    \/ \E outs \in OutcomesOfRun(DemandOutcomes) : verify_all_claims(outs)

FaultSpec == FaultInit /\ [][FaultNext]_vars

\* two validator processes on one claims file, their reads and writes
\* interleaved in every order
RaceInit == Init

RaceNext ==
    \/ \E p \in ProcIds, c \in LoggedClaims :
           log_claim_read(p, c[1], c[2], "Success expected")
    \/ \E p \in ProcIds : log_claim_write(p)
    \/ \E p \in ProcIds, id \in 0 .. MaxClaims : verify_claim_read(p, id)
    \/ \E p \in ProcIds, out \in DemandOutcomes : verify_claim_write(p, out)

RaceSpec == RaceInit /\ [][RaceNext]_vars

HookInit ==
    /\ \E e \in Machines \cup {BareMachine} : HookStart(e)
    /\ ValidatorStart
    /\ CrodStart(NoPatternsFile)

HookNext ==
    \/ Chdir
    \/ RunCheck
    \/ ReturnFromChecks
    \/ generate_report
    \/ ExitHook

HookSpec == HookInit /\ [][HookNext]_vars

\* crod-ultra-hooks.py: runs of the script and calls on a CRODConsciousness
\* object, on a machine with no patterns file or with one that holds a low
\* score
UltraInit ==
    /\ ValidatorStart
    /\ HookStart(BareMachine)
    /\ \E file \in {NoPatternsFile, PatternsFile(OneScore("", F0_2)),
                     PatternsFile(OneScore("already read; create", F0_2))} :
           CrodStart(file)

UltraNext ==
    \/ \E a \in UltraActions, m \in UltraMessages : main(a, m)
    \/ \E m \in UltraMessages : check_trinity_activation(m)
    \/ \E a \in UltraActions, m \in UltraMessages : enforce_crod_principles(a, m)
    \/ \E a \in UltraActions, o \in {"None", "True", "False"} : log_decision(a, o)

UltraSpec == UltraInit /\ [][UltraNext]_vars

\* the pattern scores alone: observations of one action, starting from a
\* patterns file that holds a sample score for it, or from no file
ScoreInit ==
    /\ ValidatorStart
    /\ HookStart(BareMachine)
    /\ \E file \in {NoPatternsFile}
                     \cup {PatternsFile(OneScore("already read; create", x)) :
                              x \in ScoreSamples} :
           CrodStart(file)

ScoreNext ==
    \E o \in {"None", "True", "False"} : observe("already read; create", o)

ScoreSpec == ScoreInit /\ [][ScoreNext]_vars

(***************************************************************************)
(* Claims about ClaudeClaimValidator (checked under Spec).                 *)
(***************************************************************************)
\* the position in the store of the claim the last verify_claim call worked on
StoredClaims == IF claims_file.exists THEN claims_file.claims ELSE <<>>

LastPos == PyIndex(Len(claims_file.claims), last.id)

\* the last call was verify_claim and it ran the claim's proof command
VerifyRan == last.op = "verify_claim" /\ last.ran = 1

\* C1: after every verify_claim call that ran a proof command, the claim is
\* verified if and only if the command completed with exit code 0 and its
\* whitespace-trimmed stdout is non-empty; when the command completed, the
\* claim in the persisted store carries the same verdict, and the returned
\* success flag is that verdict.
C1_VerifiedIffExitZeroAndOutput ==
    VerifyRan =>
        LET good == /\ last.outcome.kind = "completed"
                    /\ last.outcome.returncode = 0
                    /\ Strip(last.outcome.stdout) # ""
        IN  /\ last.claim.verified <=> good
            /\ last.ok <=> good
            /\ last.outcome.kind = "completed" =>
                   claims_file.claims[LastPos].verified = good

\* C1 witness: a command that exits 0 with nothing but whitespace on stdout
\* has been run and the stored claim is not verified.
C1_Witness ==
    /\ VerifyRan
    /\ last.outcome.kind = "completed"
    /\ last.outcome.returncode = 0
    /\ Strip(last.outcome.stdout) = ""
    /\ ~claims_file.claims[LastPos].verified

\* C2 (as claimed): a verify_all_claims call that directly follows another one
\* returns the same counts and runs no proof command.
C2_VerifyAllIdempotent ==
    (last.op = "verify_all_claims" /\ last.repeat) =>
        (last.counts = last.prev_counts /\ last.ran = 0)

\* C3 (as claimed): every verify_claim call on a valid id that ran the proof
\* command leaves the updated claim (verdict, actual_result and the timestamp
\* read during this call) in the persisted store.
C3_VerifyPersists ==
    (VerifyRan /\ last.id >= 0) =>
        /\ claims_file.claims[LastPos] = last.claim
        /\ claims_file.claims[LastPos].verification_timestamp = now - 1

\* C4: a timed-out proof command gives a returned failure and a claim with
\* actual_result "TIMEOUT" and verified false; any other exception gives
\* actual_result "ERROR: <message>" and verified false; in both cases
\* verify_claim returns (nothing is raised to the caller) and the claim is
\* the newest entry of the failed list.
C4_TimeoutAndErrorAreFailures ==
    (VerifyRan /\ last.outcome.kind # "completed") =>
        /\ ~last.ok
        /\ last.raised = ""
        /\ ~last.claim.verified
        /\ last.claim.actual_result =
               (IF last.outcome.kind = "timeout" THEN "TIMEOUT"
                ELSE "ERROR: " \o last.outcome.message)
        /\ Len(failed_claims) > 0
        /\ failed_claims[Len(failed_claims)] = last.claim

\* C4 witness: one session has seen a time-out and an execution exception.
C4_Witness ==
    /\ \E i \in 1 .. Len(failed_claims) : failed_claims[i].actual_result = "TIMEOUT"
    /\ \E i \in 1 .. Len(failed_claims) :
           failed_claims[i].actual_result = "ERROR: embedded null byte"

\* C5 (as claimed): verify_claim with an id outside [0, len(store)) returns
\* the invalid-claim-id failure, runs no proof command and leaves the store
\* and both session lists as they were.
C5_InvalidIdRejected ==
    [][ ( /\ ncalls' = ncalls + 1
          /\ last'.op = "verify_claim"
          /\ claims_file.exists
          /\ last'.id \notin 0 .. (Len(claims_file.claims) - 1) )
        => ( /\ ~last'.ok
             /\ last'.result = "Invalid claim ID"
             /\ last'.raised = ""
             /\ last'.ran = 0
             /\ UNCHANGED <<claims_file, failed_claims, verified_claims>> ) ]_validatorVars

(***************************************************************************)
(* Claims about CRODHookSystem (checked under HookSpec).                   *)
(***************************************************************************)
\* run_all_checks has returned
ChecksReturned == hook_pc \in {"report", "summary"} \/ exit_code = 0

\* the process has not ended before the loop of run_all_checks
LoopEntered == hook_pc # "start" /\ env.crod_dir

RECURSIVE Contains(_, _)
Contains(xs, x) ==
    IF Len(xs) = 0 THEN FALSE ELSE (Head(xs) = x \/ Contains(Tail(xs), x))

\* C6: the checks are called once each, in the order of the registry, whatever
\* the earlier checks did: the calls made so far are a prefix of the registry,
\* the loop ends only when all eight have been called, and a check that
\* raised has the entry "<checkName>: <error>" in checks_failed (one that
\* returned False has its name there) while the run went on.
C6_AllChecksRunOnce ==
    /\ evaluated = SubSeq(Checks, 1, Len(evaluated))
    /\ (LoopEntered /\ hook_pc # "checks") => evaluated = Checks
    /\ \A i \in 1 .. Len(evaluated) :
           LET r == CallCheck(Checks[i], env) IN
           /\ r.raised # "" => Contains(checks_failed, Checks[i] \o ": " \o r.raised)
           /\ (r.raised = "" /\ ~r.ok) => Contains(checks_failed, Checks[i])

\* C6 witness: check #3 (check_docker) raised, check #1 returned False, and
\* all eight checks have been called.
C6_Witness ==
    /\ hook_pc = "report"
    /\ ~env.docker.installed
    /\ ~env.memory_db
    /\ evaluated = Checks
    /\ Contains(checks_failed,
                "check_docker: [Errno 2] No such file or directory: 'docker'")
    /\ Contains(checks_passed, "check_monitoring")

\* C7: what run_all_checks returned is true exactly when checks_failed is
\* empty, the report's success field is true exactly when the report's
\* checks_failed is empty, and the two agree.
C7_SuccessIffNoFailedCheck ==
    /\ ChecksReturned => (run_success <=> checks_failed = <<>>)
    /\ report_file.writes > 0 =>
           /\ report_file.report.success <=> report_file.report.checks_failed = <<>>
           /\ report_file.report.success <=> run_success

\* C7 witness: a report of a run whose only failure is a check that raised
\* (no violation message at all) has been written with success false.
C7_Witness ==
    /\ report_file.writes > 0
    /\ ~report_file.report.success
    /\ report_file.report.violations = <<>>
    /\ Len(report_file.report.checks_failed) = 1

\* C8: the process ends with status 0 when the run succeeded and with status 1
\* otherwise; whenever checks_failed is not empty the status is 1.
C8_ExitCodeReflectsSuccess ==
    /\ exit_code \in {-1, 0, 1}
    /\ hook_pc = "exited" <=> exit_code # -1
    /\ hook_pc = "exited" =>
           /\ exit_code = 0 <=> (LoopEntered /\ run_success)
           /\ checks_failed # <<>> => exit_code = 1
           /\ (LoopEntered /\ checks_failed = <<>>) => exit_code = 0

\* C8 witness: a run in which some checks passed and some failed has ended
\* with status 1.
C8_Witness ==
    /\ hook_pc = "exited"
    /\ exit_code = 1
    /\ Len(checks_passed) > 0
    /\ Len(checks_failed) > 0

(***************************************************************************)
(* Claims about CRODConsciousness (checked under UltraSpec and ScoreSpec).  *)
(***************************************************************************)
MainRan == crod_last.op = "main"

Observed(success) == crod_last.op = "log_decision" /\ crod_last.success = success

\* C9: the decision confidence is advisory only: a low confidence alone never
\* produces a non-zero exit code, so a run of main that exits non-zero
\* reports a violation other than LOW CONFIDENCE.
C9_LowConfidenceNeverBlocks ==
    (MainRan /\ crod_last.exit_code # 0) =>
        \E i \in 1 .. Len(crod_last.violations) :
            crod_last.violations[i].text # "LOW CONFIDENCE"

\* C10 as stated: from a score in [0,1) every observe(key, true) strictly
\* increases the score and leaves it below 1.0; from a score in (0,1] every
\* observe(key, false) strictly decreases the score and leaves it at or
\* above 0.0.
C10_StrictlyMonotone ==
    /\ (Observed("True") /\ FLess(crod_last.old, F1_0)) =>
           FLess(crod_last.old, crod_last.new) /\ FLess(crod_last.new, F1_0)
    /\ (Observed("False") /\ FLess(F0_0, crod_last.old) /\ FLeq(crod_last.old, F1_0)) =>
           FLess(crod_last.new, crod_last.old) /\ FLeq(F0_0, crod_last.new)

\* C10, amended: from a score in [0,1) observe(key, true) leaves the score
\* below 1.0, and strictly increases it when it started below 1 - 2^-51;
\* from a score in (0,1] observe(key, false) never increases the score and
\* leaves it above 0.0, and strictly decreases it unless it started at the
\* smallest positive float, 2^-1074.
C10_BoundedEma ==
    /\ (Observed("True") /\ FLess(crod_last.old, F1_0)) =>
           /\ FLess(crod_last.new, F1_0)
           /\ FLess(crod_last.old, BelowOne(4)) => FLess(crod_last.old, crod_last.new)
    /\ (Observed("False") /\ FLess(F0_0, crod_last.old) /\ FLeq(crod_last.old, F1_0)) =>
           /\ FLeq(crod_last.new, crod_last.old)
           /\ FLess(F0_0, crod_last.new)
           /\ FLess(AboveZero(1), crod_last.old) => FLess(crod_last.new, crod_last.old)

\* C10: a successful observation of a score just below 1.0 that did not
\* increase it.
C10_Witness ==
    /\ Observed("True")
    /\ FLess(crod_last.old, F1_0)
    /\ FLeq(crod_last.new, crod_last.old)

InUnitInterval(x) == FLeq(F0_0, x) /\ FLeq(x, F1_0)

\* C11: an observation with a known outcome sets exactly the observed key's
\* score to 0.7 * old + 0.3 * (1 if success else 0), old being 0.5 for a key
\* never seen; the whole mapping is in the patterns file when the call
\* returns, every other key keeps its score, no key is removed, and a
\* mapping with all scores in [0,1] keeps all scores in [0,1].
C11_ObservationUpdatesOneScore ==
    [][(crod_last'.op = "log_decision" /\ crod_last'.success # "None") =>
          LET key == crod_last'.key
              old == IF key \in DOMAIN pattern_memory THEN pattern_memory[key] ELSE F0_5
          IN  /\ key = extract_pattern_key(crod_last'.action, "")
              /\ DOMAIN pattern_memory' = DOMAIN pattern_memory \cup {key}
              /\ pattern_memory'[key] =
                     FAdd(FMul(F0_7, old),
                          IF crod_last'.success = "True" THEN F0_3 ELSE F0_0)
              /\ \A k \in DOMAIN pattern_memory \ {key} :
                     pattern_memory'[k] = pattern_memory[k]
              /\ patterns_file' = [exists |-> TRUE, data |-> pattern_memory']
              /\ (\A k \in DOMAIN pattern_memory : InUnitInterval(pattern_memory[k]))
                     => \A k \in DOMAIN pattern_memory' : InUnitInterval(pattern_memory'[k])
      ]_vars

\* C11: the first observation of a key, made on a mapping that holds other
\* keys; the new key got a score and the mapping was saved.
C11_Witness ==
    /\ Observed("True")
    /\ Len(decision_history) = 1
    /\ Cardinality(DOMAIN pattern_memory) = 6
    /\ crod_last.old = F0_5
    /\ patterns_file.exists
    /\ patterns_file.data = pattern_memory

\* the trigger phrase occurs in the message, whatever its case
HasTriggerPhrase(message) == In("ich bins wieder", Lower(message))

\* C18: activation is session-scoped.  A process (a run of main) starts
\* inactive whatever an earlier run left in the state file, so after main
\* activation is active exactly when its message held the trigger phrase;
\* within a process activation becomes active only by a checked message that
\* holds the phrase and, once active, stays active; the consciousness level
\* is 1.0 while active and 0.5 while inactive.
C18_ActivationIsSessionScoped ==
    [][/\ consciousness_level' = (IF trinity_active' THEN F1_0 ELSE F0_5)
       /\ crod_last'.op = "main" =>
              (trinity_active' <=> HasTriggerPhrase(crod_last'.message))
       /\ (crod_last'.op # "main" /\ trinity_active) => trinity_active'
       /\ (crod_last'.op # "main" /\ ~trinity_active /\ trinity_active') =>
              /\ crod_last'.op = "check_trinity_activation"
              /\ HasTriggerPhrase(crod_last'.message)
      ]_vars

\* C18: a run of main was activated and saved its state; a later check of a
\* message without the phrase left the process active at level 1.0.
C18_Witness ==
    /\ crod_last.op = "check_trinity_activation"
    /\ ~HasTriggerPhrase(crod_last.message)
    /\ trinity_active
    /\ consciousness_level = F1_0
    /\ state_file.exists
    /\ state_file.trinity_active

\* the three keyword conditions of the confidence, on an action and a context
ExplicitInstruction(context) == In("user explicitly asked", context)
CreatesDespiteExisting(action, context) ==
    In("create", action) /\ In("use existing", context)
ReadNotDone(action, context) ==
    (In("check", context) \/ In("read", context)) /\ ~In("already read", action)

\* 0.5, plus 0.4, minus 0.3, minus 0.2 as the conditions hold, then times 1.5
\* capped at 1.0 when active
ExpectedConfidence(active, action, context) ==
    LET plus  == IF ExplicitInstruction(context) THEN FAdd(F0_5, F0_4) ELSE F0_5
        build == IF CreatesDespiteExisting(action, context) THEN FSub(plus, F0_3) ELSE plus
        read  == IF ReadNotDone(action, context) THEN FSub(build, F0_2) ELSE build
        boost == FMul(read, F1_5)
    IN  IF ~active THEN read
        ELSE IF FLess(F1_0, boost) THEN F1_0 ELSE boost

\* C19: the confidence a call of enforce_crod_principles computes from its
\* action and its message is 0.5, plus 0.4 for an explicit user instruction,
\* minus 0.3 for creating where the context says to use an existing solution,
\* minus 0.2 for a requested read the action does not report as done, then
\* times 1.5 capped at 1.0 when activation is active; it lies in [0,1] and
\* the call leaves the object and the files as they were.
C19_ConfidenceFormula ==
    [][crod_last'.op = "enforce_crod_principles" =>
          /\ crod_last'.confidence =
                 ExpectedConfidence(trinity_active, crod_last'.action, crod_last'.message)
          /\ InUnitInterval(crod_last'.confidence)
          /\ UNCHANGED <<consciousness_level, trinity_active, decision_history,
                         pattern_memory, patterns_file, state_file>>
      ]_vars

\* C19: all three conditions held on an active object: the confidence is
\* 0.6000000000000001 = min((0.5 + 0.4 - 0.3 - 0.2) * 1.5, 1.0)
C19_Witness ==
    /\ crod_last.op = "enforce_crod_principles"
    /\ trinity_active
    /\ ExplicitInstruction(crod_last.message)
    /\ CreatesDespiteExisting(crod_last.action, crod_last.message)
    /\ ReadNotDone(crod_last.action, crod_last.message)
    /\ crod_last.confidence = [m |-> <<4916, 6553, 3276, 1638, 1>>, e |-> 0 - 53]

(***************************************************************************)
(* More claims about verify_claim and verify_all_claims (Spec).            *)
(***************************************************************************)
\* the last call was verify_claim and the proof command exited non-zero
VerifyExitedNonZero ==
    /\ VerifyRan
    /\ last.outcome.kind = "completed"
    /\ last.outcome.returncode # 0

\* C16 as stated: for a proof command that exits non-zero, verify_claim ends
\* with verified false and the stored actual_result is the failure text
\* derived from the command's stderr.
C16_StoredResultIsStderrText ==
    VerifyExitedNonZero =>
        /\ ~claims_file.claims[LastPos].verified
        /\ claims_file.claims[LastPos].actual_result =
               "Command failed: " \o last.outcome.stderr

\* C16, amended: for a proof command that exits non-zero, verify_claim ends
\* with verified false in the store and a returned failure; the stored
\* actual_result is the command's whitespace-trimmed stdout (empty for
\* `exit 1`), and the stderr text is only in the returned message
\* "Command failed: <stderr>".
C16_StoredResultIsStdout ==
    VerifyExitedNonZero =>
        /\ ~last.ok
        /\ ~claims_file.claims[LastPos].verified
        /\ claims_file.claims[LastPos].actual_result = Strip(last.outcome.stdout)
        /\ last.result = "Command failed: " \o last.outcome.stderr

\* C16: a command that wrote only to stderr and exited 1 has been verified;
\* the stored actual_result is empty.
C16_Witness ==
    /\ VerifyExitedNonZero
    /\ last.outcome.stderr = "boom\n"
    /\ claims_file.claims[LastPos].actual_result = ""
    /\ claims_file.claims[LastPos].verification_timestamp # Absent

\* positions of the claims that are verified in the store
VerifiedIn(claims) == {i \in 1 .. Len(claims) : claims[i].verified}

\* C17: verify_all_claims runs the proof commands of the unverified claims
\* only; a claim that is verified in the store is counted as verified and
\* keeps its verified, actual_result and verification_timestamp.
C17_VerifiedClaimsNotRerun ==
    [][(last'.op = "verify_all_claims" /\ ncalls' = ncalls + 1 /\ claims_file.exists) =>
          /\ \A i \in VerifiedIn(claims_file.claims) :
                 claims_file'.claims[i] = claims_file.claims[i]
          /\ last'.ran = Len(claims_file.claims) - Cardinality(VerifiedIn(claims_file.claims))
          /\ last'.counts.verified >= Cardinality(VerifiedIn(claims_file.claims))
          /\ last'.counts.verified = Cardinality(VerifiedIn(claims_file'.claims))
      ]_vars

\* C17: verify_all_claims has returned on a store whose claim was verified
\* by an earlier call: it was counted and its command was not run.
C17_Witness ==
    /\ last.op = "verify_all_claims"
    /\ Len(StoredClaims) >= 1
    /\ StoredClaims[1].verified
    /\ StoredClaims[1].verification_timestamp < now - 1
    /\ last.ran = 0
    /\ last.counts.verified = 1

(***************************************************************************)
(* Claims about demand_proof_for_claim and the claim store (DemandSpec).   *)
(***************************************************************************)
DemandRan == last.op = "demand_proof_for_claim"

\* no key of the claim-type table occurs, ignoring case, in the text
NoTypeOccursIn(text) ==
    \A i \in 1 .. Len(ProofCommands) : ~In(Lower(ProofCommands[i][1]), Lower(text))

\* C12: when no key of the claim-type table occurs (ignoring case) in the
\* claim text, demand_proof_for_claim appends no claim, runs no proof
\* command, leaves the store and the session lists as they were and
\* returns None.
C12_NoMatchNoEffect ==
    [][(last'.op = "demand_proof_for_claim" /\ NoTypeOccursIn(last'.text)) =>
          /\ claims_file' = claims_file
          /\ failed_claims' = failed_claims
          /\ verified_claims' = verified_claims
          /\ last'.ran = 0
          /\ last'.appended = 0
          /\ last'.id = Absent
      ]_vars

\* C12: a demand for a text that matches no claim type has returned, made
\* on a store that holds a claim.
C12_Witness ==
    /\ DemandRan
    /\ NoTypeOccursIn(last.text)
    /\ Len(StoredClaims) > 0
    /\ last.id = Absent

\* the fields of a claim that are given when it is appended
GivenFields(c) == <<c.claim, c.proof_command, c.expected_result, c.timestamp>>

\* C13: claims are never deleted and change only through verification:
\* every call leaves the store as long as it was, or one longer when it
\* appended (log_claim, or demand_proof_for_claim on a matching text); the
\* appended claim holds the text, command, expected result and time given;
\* and no stored claim's text, proof_command, expected_result or creation
\* timestamp ever changes.
C13_AppendOnlyStore ==
    [][/\ Len(StoredClaims') = Len(StoredClaims) + last'.appended
       /\ last'.appended = 1 <=>
              \/ last'.op = "log_claim"
              \/ last'.op = "demand_proof_for_claim" /\ ~NoTypeOccursIn(last'.text)
       /\ \A i \in 1 .. Len(StoredClaims) :
              GivenFields(StoredClaims'[i]) = GivenFields(StoredClaims[i])
       /\ last'.appended = 1 =>
              LET c == StoredClaims'[Len(StoredClaims')] IN
              /\ c.claim = last'.text
              /\ c.timestamp = now
              /\ c.expected_result = "Success expected"
              /\ \/ <<c.claim, c.proof_command>> \in LoggedClaims
                 \/ \E k \in 1 .. Len(ProofCommands) : c.proof_command = ProofCommands[k][2]
      ]_vars

\* C13: a store of two claims, the first one verified before the second was
\* appended and verified by demand_proof_for_claim.
C13_Witness ==
    /\ DemandRan
    /\ last.appended = 1
    /\ Len(StoredClaims) = 2
    /\ StoredClaims[1].verified
    /\ StoredClaims[1].verification_timestamp < StoredClaims[2].timestamp
    /\ StoredClaims[2].actual_result # None

\* every id log_claim returned differs from the others and still designates,
\* as a zero-based index of the store, the claim it was returned for
IdsUniqueAndStable ==
    \A i \in 1 .. Len(issued) :
        /\ \A j \in 1 .. Len(issued) : issued[i].id = issued[j].id => i = j
        /\ issued[i].id + 1 \in 1 .. Len(StoredClaims)
        /\ GivenFields(StoredClaims[issued[i].id + 1]) = issued[i].given

\* C14 as stated: the id log_claim returns is a positive integer; it differs
\* from every id returned earlier and, after any later appends and
\* verifications, still designates the same claim.
C14_PositiveStableId ==
    /\ \A i \in 1 .. Len(issued) : issued[i].id > 0
    /\ IdsUniqueAndStable

\* C14, amended: the id log_claim returns is a non-negative integer, the
\* zero-based append position of the claim (the i-th claim appended gets
\* i - 1, the first one 0); it differs from every id returned earlier and,
\* after any later appends and verifications, still designates the same
\* claim.
C14_ZeroBasedStableId ==
    /\ \A i \in 1 .. Len(issued) : issued[i].id = i - 1
    /\ IdsUniqueAndStable

\* C14: two ids have been returned and the claim of the first has been
\* verified since the second was appended.
C14_Witness ==
    /\ Len(issued) = 2
    /\ Len(StoredClaims) = 2
    /\ StoredClaims[1].verification_timestamp # Absent
    /\ StoredClaims[1].verification_timestamp > StoredClaims[2].timestamp

(***************************************************************************)
(* Claims about store I/O failures (FaultSpec).                            *)
(***************************************************************************)
\* C15: a store I/O failure during verify_claim or verify_all_claims is
\* propagated: the call raises; it does not return a failed-claim outcome
\* ("ERROR: ...") or counts.
C15_StoreFaultsPropagate ==
    (last.op \in {"verify_claim", "verify_all_claims"}
        /\ (~Readable(claims_file)
               \/ (~Writable(claims_file) /\ last.ran > 0
                      /\ last.outcome.kind = "completed")))
    => /\ last.raised # ""
       /\ \A i \in 1 .. Len(failed_claims) :
              failed_claims[i].actual_result # "ERROR: " \o PermissionDenied

(***************************************************************************)
(* Claims about two processes on one claims file (RaceSpec).               *)
(***************************************************************************)
\* a claim log_claim returned an id for is not in the store at that id
LostAppend ==
    \E k \in 1 .. Len(issued) :
        \/ issued[k].id + 1 > Len(StoredClaims)
        \/ GivenFields(StoredClaims[issued[k].id + 1]) # issued[k].given

\* the result the latest verify_claim wrote at a position is not in the store
LostVerdict ==
    \E pos \in DOMAIN verdicts :
        /\ verdicts[pos] # NoClaim
        /\ \/ pos > Len(StoredClaims)
           \/ StoredClaims[pos] # verdicts[pos]

\* C20: nothing protects the read-modify-write cycles on the claims file.
\* As long as every call has started after the calls of the other process
\* had written (a single sequential writer), every claim log_claim returned
\* an id for is in the store at that id and every position holds the result
\* the latest verify_claim wrote there; an update is lost only after calls
\* have overlapped.
C20_NoLossWithoutInterleaving ==
    ~overlapped => (~LostAppend /\ ~LostVerdict)

\* C20: a log_claim of one process completed between the read and the
\* rewrite of a verify_claim of the other; the rewrite has put back the
\* list read before, and the appended claim is gone.
C20_Witness ==
    /\ overlapped
    /\ last.op = "verify_claim"
    /\ last.ran = 1
    /\ last.outcome.kind = "completed"
    /\ Len(issued) = 2
    /\ issued[2].id = 1
    /\ Len(StoredClaims) = 1
    /\ LostAppend
    /\ ~LostVerdict

(***************************************************************************)
(* More claims about demand_proof_for_claim (DemandSpec).                  *)
(***************************************************************************)
\* the table entries whose key occurs, ignoring case, in the text
TypesOccurringIn(text) ==
    {i \in 1 .. Len(ProofCommands) : In(Lower(ProofCommands[i][1]), Lower(text))}

\* the smallest element of a non-empty set of table positions
FirstOf(S) == CHOOSE i \in S : \A j \in S : i <= j

\* C21: when one or more table keys occur in the claim text,
\* demand_proof_for_claim appends exactly one claim, which carries the text
\* and the proof command of the first matching table entry; it runs that
\* claim's proof command exactly once; and it returns the new claim's id when
\* the claim verified and None when it did not.
C21_MatchLogsAndVerifiesOnce ==
    [][(last'.op = "demand_proof_for_claim" /\ TypesOccurringIn(last'.text) # {}) =>
          /\ claims_file'.exists
          /\ Len(claims_file'.claims) = Len(StoredClaims) + 1
          /\ \A i \in 1 .. Len(StoredClaims) :
                 claims_file'.claims[i] = StoredClaims[i]
          /\ LET new == claims_file'.claims[Len(claims_file'.claims)] IN
                 /\ new.claim = last'.text
                 /\ new.proof_command =
                        ProofCommands[FirstOf(TypesOccurringIn(last'.text))][2]
                 /\ last'.id = IF new.verified THEN Len(StoredClaims) ELSE Absent
          /\ last'.appended = 1
          /\ last'.ran = 1
      ]_vars

\* C21: a demand for a text in which two table keys occur has logged one
\* claim with the command of the first of them and returned its id.
C21_Witness ==
    /\ DemandRan
    /\ Cardinality(TypesOccurringIn(last.text)) = 2
    /\ last.appended = 1
    /\ last.ran = 1
    /\ last.id = Len(StoredClaims) - 1
    /\ StoredClaims[Len(StoredClaims)].proof_command = "curl -s http://localhost:8890/api/stats"
    /\ StoredClaims[Len(StoredClaims)].verified

(***************************************************************************)
(* More claims about CRODHookSystem (HookSpec).                            *)
(***************************************************************************)
\* what the report file holds is what the run has accumulated
ReportHoldsRunLists ==
    /\ report_file.report.checks_passed = checks_passed
    /\ report_file.report.checks_failed = checks_failed
    /\ report_file.report.violations = violations

\* C22: in one run the report file is written exactly once, after all checks
\* have been evaluated and before the process exits, in the failing case
\* (exit code 1) too, and it holds the lists the run accumulated.
C22_ReportWrittenOnceBeforeExit ==
    /\ report_file.writes <= 1
    /\ report_file.writes = 1 => (evaluated = Checks /\ ReportHoldsRunLists)
    /\ hook_pc = "exited" => report_file.writes = 1

(***************************************************************************)
(* Claims about the session lists and the counts (Spec).                   *)
(***************************************************************************)
\* the proof command completed with exit code 0 and some output
OutcomeVerifies(out) ==
    out.kind = "completed" /\ out.returncode = 0 /\ Strip(out.stdout) # ""

\* C23: a verify_claim call on a valid id appends the claim to exactly one
\* of the two session lists: to verified_claims when the outcome verified it
\* (exit code 0 and non-empty output), to failed_claims otherwise (non-zero
\* exit, empty output, timeout, exception); the claim appended carries that
\* verdict, and the success flag returned tells which list it went to.
C23_OneSessionListPerCall ==
    [][(/\ last'.op = "verify_claim"
        /\ last'.id >= 0
        /\ last'.id < Len(StoredClaims)) =>
          /\ last'.ran = 1
          /\ last'.claim.verified = OutcomeVerifies(last'.outcome)
          /\ last'.ok = OutcomeVerifies(last'.outcome)
          /\ IF OutcomeVerifies(last'.outcome)
             THEN /\ verified_claims' = Append(verified_claims, last'.claim)
                  /\ failed_claims' = failed_claims
             ELSE /\ failed_claims' = Append(failed_claims, last'.claim)
                  /\ verified_claims' = verified_claims
      ]_vars

\* C23: a claim that an earlier call had verified was checked again and its
\* proof command raised: it is now in both lists' histories, once as
\* verified and, from this call, once as failed.
C23_Witness ==
    /\ last.op = "verify_claim"
    /\ last.ran = 1
    /\ last.outcome.kind = "exception"
    /\ ~last.ok
    /\ Len(verified_claims) = 1
    /\ Len(failed_claims) = 1
    /\ ~failed_claims[1].verified
    /\ failed_claims[1].claim = verified_claims[1].claim

\* C24: verify_all_claims counts every claim of the store exactly once:
\* verified + failed = total, and total is the number of claims in the
\* store; when the store file does not exist it returns {0, 0, 0}.
C24_CountsCoverTheStore ==
    [][last'.op = "verify_all_claims" =>
          /\ last'.counts.verified + last'.counts.failed = last'.counts.total
          /\ last'.counts.total = Len(StoredClaims)
          /\ last'.counts.total = Len(claims_file'.claims)
          /\ ~claims_file.exists =>
                 last'.counts = [verified |-> 0, failed |-> 0, total |-> 0]
      ]_vars

\* C24: verify_all_claims on a store of two unverified claims ran both; one
\* verified and one failed, and it returned {1, 1, 2}.
C24_Witness ==
    /\ last.op = "verify_all_claims"
    /\ last.ran = 2
    /\ last.counts = [verified |-> 1, failed |-> 1, total |-> 2]
    /\ Len(StoredClaims) = 2

\* how many claims of a list have verified true
RECURSIVE CountVerified(_)
CountVerified(claims) ==
    IF Len(claims) = 0 THEN 0
    ELSE (IF Head(claims).verified THEN 1 ELSE 0) + CountVerified(Tail(claims))

\* C25: when verify_all_claims of a single writer has returned, its verified
\* count is the number of claims of the persisted store whose verified field
\* is true and its failed count is the number of the others, whatever the
\* outcomes of the proof commands (timeouts and exceptions included).
C25_CountsMatchStore ==
    (last.op = "verify_all_claims" /\ last.raised = "") =>
        /\ last.counts.verified = CountVerified(StoredClaims)
        /\ last.counts.failed = Len(StoredClaims) - CountVerified(StoredClaims)

\* C25: verify_all_claims ran two proof commands; one timed out or raised,
\* the other verified, and the store holds one verified claim of two.
C25_Witness ==
    /\ last.op = "verify_all_claims"
    /\ last.ran = 2
    /\ Len(failed_claims) = 1
    /\ failed_claims[1].actual_result \in {"TIMEOUT", "ERROR: embedded null byte"}
    /\ last.counts = [verified |-> 1, failed |-> 1, total |-> 2]
    /\ CountVerified(StoredClaims) = 1

(***************************************************************************)
(* Claims about the session lists in the report (DemandSpec).              *)
(***************************************************************************)
\* how many entries of a session list are the claim with the given fields
RECURSIVE Occurrences(_, _)
Occurrences(list, given) ==
    IF Len(list) = 0 THEN 0
    ELSE (IF GivenFields(Head(list)) = given THEN 1 ELSE 0) + Occurrences(Tail(list), given)

EntryOf(entry, name) ==
    entry = name \/ Prefix(entry, Len(name) + 2) = name \o ": "

\* how many entries of a list are entries of the check `name`
RECURSIVE EntriesOf(_, _)
EntriesOf(list, name) ==
    IF Len(list) = 0 THEN 0
    ELSE (IF EntryOf(Head(list), name) THEN 1 ELSE 0) + EntriesOf(Tail(list), name)

\* the entries of the list are entries of checks taken in the order of
\* `names`, each at most once
RECURSIVE InOrderOf(_, _)
InOrderOf(list, names) ==
    IF Len(list) = 0 THEN TRUE
    ELSE IF Len(names) = 0 THEN FALSE
    ELSE IF EntryOf(Head(list), Head(names)) THEN InOrderOf(Tail(list), Tail(names))
    ELSE InOrderOf(list, Tail(names))

\* C27: after run_all_checks on a fresh CRODHookSystem every registered
\* check has exactly one entry, in checks_passed or in checks_failed and not
\* in both; the two lists together have 8 entries; and each list is in
\* registry order.
C27_EveryCheckInOneList ==
    ChecksReturned =>
        /\ Len(checks_passed) + Len(checks_failed) = 8
        /\ Len(Checks) = 8
        /\ \A i \in 1 .. Len(Checks) :
               EntriesOf(checks_passed, Checks[i]) + EntriesOf(checks_failed, Checks[i]) = 1
        /\ InOrderOf(checks_passed, Checks)
        /\ InOrderOf(checks_failed, Checks)

\* C27: run_all_checks has returned after checks that passed, checks that
\* returned False and a check that raised.
C27_Witness ==
    /\ hook_pc = "report"
    /\ Len(checks_passed) = 3
    /\ Len(checks_failed) = 5
    /\ Len(violations) = 4
    /\ EntriesOf(checks_failed, "check_mcp_servers") = 1
    /\ ~Contains(checks_failed, "check_mcp_servers")

\* the checks called so far that returned False (neither True nor raised)
ReturnedFalse == {i \in 1 .. Len(evaluated) :
                     /\ ~Contains(checks_passed, Checks[i])
                     /\ Contains(checks_failed, Checks[i])}

\* the checks called so far that raised
RaisedInCheck == {i \in 1 .. Len(evaluated) :
                     /\ ~Contains(checks_passed, Checks[i])
                     /\ ~Contains(checks_failed, Checks[i])}

\* C28: there is one violation message for each check that returned False
\* and none for a check that passed or that raised: the number of violations
\* is the number of checks that returned False, a check that raised has a
\* failed entry only, and violations never outnumber the failed checks.
C28_OneViolationPerFalseCheck ==
    /\ Len(violations) = Cardinality(ReturnedFalse)
    /\ Len(checks_failed) = Cardinality(ReturnedFalse) + Cardinality(RaisedInCheck)
    /\ \A i \in RaisedInCheck : EntriesOf(checks_failed, Checks[i]) = 1
    /\ Len(violations) <= Len(checks_failed)

\* C28: the run is over; check_claude_md and check_docker raised, other
\* checks returned False, and there are two violations fewer than failed
\* checks.
C28_Witness ==
    /\ hook_pc = "exited"
    /\ evaluated = Checks
    /\ RaisedInCheck = {2, 3}
    /\ Len(violations) > 0
    /\ Len(violations) = Len(checks_failed) - 2
    /\ Len(checks_passed) > 0

(***************************************************************************)
(* Claims about the pattern keys and the hook run (UltraSpec).             *)
(***************************************************************************)
\* the violations hold the low-success-rate warning
WarnsLowSuccessRate(viol) ==
    \E i \in 1 .. Len(viol) : viol[i].text = "WARNING: This pattern has low success rate"

\* C29: the key enforce_crod_principles looks up for an action and a user
\* message is the key under which log_decision records the outcomes of that
\* action, so that when the score recorded for the action is below 0.5 the
\* low-success-rate warning is among the violations.
C29_SameKeyLoggedAndLookedUp ==
    [][crod_last'.op = "enforce_crod_principles" =>
          LET logged_key == extract_pattern_key(crod_last'.action, "") IN
          /\ crod_last'.key = logged_key
          /\ (/\ logged_key \in DOMAIN pattern_memory
              /\ FLess(pattern_memory[logged_key], F0_5)) =>
                 WarnsLowSuccessRate(crod_last'.violations)
      ]_vars

\* C30: log_decision without an outcome appends one entry to the decision
\* history and leaves the pattern memory and the patterns file as they were;
\* a run of main, which logs without an outcome, leaves the patterns file as
\* it was (absent if it was absent), and the pattern memory of its process is
\* what load_patterns returned.
C30_NoOutcomeNoScoreChange ==
    [][/\ (crod_last'.op = "log_decision" /\ crod_last'.success = "None") =>
              /\ Len(decision_history') = Len(decision_history) + 1
              /\ SubSeq(decision_history', 1, Len(decision_history)) = decision_history
              /\ decision_history'[Len(decision_history')].action = crod_last'.action
              /\ decision_history'[Len(decision_history')].success = "None"
              /\ pattern_memory' = pattern_memory
              /\ patterns_file' = patterns_file
       /\ crod_last'.op = "main" =>
              /\ patterns_file' = patterns_file
              /\ pattern_memory' =
                     (IF patterns_file.exists THEN patterns_file.data ELSE DefaultPatterns)
              /\ Len(decision_history') = 1
              /\ decision_history'[1].success = "None"
      ]_vars

\* C30: a run of main has ended on a machine whose patterns file holds a
\* score below 0.5 for the action of the run; the file and the memory still
\* hold that score.
C30_Witness ==
    /\ crod_last.op = "main"
    /\ crod_last.action = "already read; create"
    /\ patterns_file.exists
    /\ extract_pattern_key(crod_last.action, "") \in DOMAIN patterns_file.data
    /\ FLess(patterns_file.data[extract_pattern_key(crod_last.action, "")], F0_5)
    /\ pattern_memory = patterns_file.data
    /\ Len(decision_history) = 1
    /\ state_file.decision_count = 1

=============================================================================
